---------------------------- MODULE Spec2Model ----------------------------
(***************************************************************************)
(* Verification model of copilot-api-rust (rust-server).                   *)
(*                                                                         *)
(*   SpecAnthropic : routes/messages.rs, stream_anthropic driving          *)
(*                   translate_chunk_to_anthropic_events with one          *)
(*                   AnthropicStreamState per response.                    *)
(*   SpecResponses : routes/messages.rs, stream_anthropic_from_responses.  *)
(*   SpecChat      : routes/chat_completions.rs,                           *)
(*                   stream_responses_as_chat_completion.                  *)
(*   SpecRate      : rate_limit.rs, check_rate_limit called by concurrent  *)
(*                   requests.                                             *)
(*                                                                         *)
(* Each specification runs one component; the variables of the others      *)
(* keep their initial values.                                              *)
(*                                                                         *)
(* SSE framing (drain_sse_blocks / extract_sse_data) delivers one data     *)
(* payload per block; a step of an adapter consumes one such payload.      *)
(***************************************************************************)
EXTENDS Integers, Sequences, FiniteSets, TLC

(***************************************************************************)
(* Bounds of the model.                                                    *)
(***************************************************************************)
\* data payloads a chat-completions upstream stream delivers before it ends
MaxPayloads == 3
\* data payloads a Responses API upstream stream delivers before it ends
MaxResponsesPayloads == 3
\* concurrent requests calling check_rate_limit
MaxRequests == 3
\* the clock runs from 0 to MaxTime ticks
MaxTime == 6
\* clock ticks per second
TicksPerSecond == 2

\* stream_anthropic (routes/messages.rs)
VARIABLES
    sa_pc,          \* "reading" (in the while loop) or "done"
    sa_state,       \* `state`, the AnthropicStreamState of the response
    sa_out,         \* the events yielded to the client, in order
    sa_n,           \* number of payloads consumed
    sa_done_seen,   \* history: an upstream [DONE] payload has been consumed
    sa_last_kind    \* history: the kind of the payload the last step consumed

\* stream_anthropic_from_responses (routes/messages.rs)
VARIABLES
    sr_pc,            \* "start", "reading" or "done"
    sr_output_tokens, \* `output_tokens`
    sr_out,           \* the events yielded to the client, in order
    sr_in             \* history: the payloads consumed, in arrival order

\* stream_responses_as_chat_completion (routes/chat_completions.rs)
VARIABLES
    sc_pc,            \* "reading" or "done"
    sc_chat_id,       \* `chat_id`, drawn once per stream
    sc_input_tokens,  \* `input_tokens`
    sc_output_tokens, \* `output_tokens`
    sc_saw_completed, \* `saw_completed`
    sc_out,           \* the frames yielded to the client, in order
    sc_in             \* history: the data lines consumed, in arrival order

\* check_rate_limit (rate_limit.rs)
VARIABLES
    rl_now,         \* the monotonic clock (Instant::now()), in ticks
    rl_config,      \* rate_limit_seconds, rate_limit_wait, last_request_timestamp
    rl_req          \* per request: where it is in check_rate_limit and its outcome

\* the request handlers (routes/chat_completions.rs, routes/messages.rs,
\* routes/responses.rs, routes/misc.rs)
VARIABLES
    hd_hooks,           \* state.hooks is Some(HookExecutor)
    hd_manual_approve,  \* config.manual_approve
    hd_workers,         \* worker threads of the tokio runtime
    hd_req              \* per request: where its handler is, and what it did

\* one call of HookExecutor::execute_event for "PreToolUse" (hooks/executor.rs)
VARIABLE
    hk              \* a record:
                    \*   pc        "running" (in the loops over the manifest), "returned"
                    \*             (to a handler) or "exited" (the `hook` command)
                    \*   log       history: the manifest entries visited so far, in order
                    \*   result    what execute_event returned
                    \*   response  what the handler answers after the PreToolUse call
                    \*   cli       the `hook` command: input echoed, exit status

\* the observation hub and its drain task (hooks/observe/mod.rs)
VARIABLE
    ob              \* a record:
                    \*   task     the spawned task: "opening", "receiving", "writing", "exited"
                    \*   opened   the task has opened the observations file
                    \*   emitted  number of calls of ObservationHub::emit so far
                    \*   tail     number of events the channel has accepted (sender's position)
                    \*   next     number of events the receiver has taken or skipped
                    \*   cur      `event`, the event the task is writing
                    \*   file     the lines of the observations file: event numbers, in order

\* ensure_copilot_token and the task of schedule_copilot_refresh (auth_flow.rs)
VARIABLE
    rf              \* a record:
                    \*   pc            "none" (no task yet), "ensuring" (the request of
                    \*                 ensure_copilot_token in flight), "sleeping",
                    \*                 "in_flight" (the task)
                    \*   github_token  config.github_token is Some
                    \*   token         config.copilot_token
                    \*   ttl_left      seconds until the cached token's expires_at; 0 once passed
                    \*   next_refresh  `next_refresh`, in seconds
                    \*   sleep_left    seconds left of the task's tokio::time::sleep
                    \*   issued        history: the last token the upstream issued
                    \*   since_fail    history: seconds since the task's last failed attempt
                    \*   gap           history: seconds between a failed attempt and the next
                    \*   result        what the last ensure_copilot_token call returned

\* the GitHub token: ensure_github_token (auth_flow.rs), the token file
\* (token_store.rs, paths.rs) and POST /auth/poll (routes/auth.rs)
VARIABLE
    au              \* a record:
                    \*   github_token  config.github_token
                    \*   dir_ok        create_dir_all(app_dir) succeeds
                    \*   file          the token file: exists, readable, writable, content
                    \*   ensure        history: the last ensure_github_token call: the state
                    \*                 it found, its result, config.github_token after it
                    \*   interval      payload.interval of the /auth/poll request
                    \*   pc            poll_token: "idle", "requesting", "sleeping",
                    \*                 "writing", "returned"
                    \*   polls         requests poll_access_token has sent
                    \*   sleep_ms      history: the duration of the last sleep_ms, if any
                    \*   token         `token`, the access token poll_access_token returned
                    \*   result        what poll_token returned

\* provider and model routing of POST /chat/completions and POST /v1/messages
\* (routes/chat_completions.rs, routes/messages.rs, services/azure.rs)
VARIABLE
    rt              \* a record:
                    \*   env         the environment: COPILOT_PROVIDER, the AZURE_OPENAI_*
                    \*               variables, ANTHROPIC_API_KEY
                    \*   endpoint    "chat" (/chat/completions) or "messages" (/v1/messages)
                    \*   model       payload.model of the request
                    \*   pc          "received" or "routed"
                    \*   sent        where the handler sent the request, and with which model
                    \*   chat_chain  the model, then the results of applying
                    \*               chat_completions::resolve_model_alias again and again
                    \*   msg_chain   the same for messages::resolve_model_alias

\* translate_chunk_to_anthropic_events, one call at a time (routes/messages.rs)
VARIABLE
    td              \* a record:
                    \*   st      the AnthropicStreamState
                    \*   n       chunks translated so far
                    \*   chunk   history: the chunk of the last call
                    \*   before  history: the state the last call started from
                    \*   ev      history: the events the last call returned

\* messages_to_responses_input (routes/responses.rs)
VARIABLE
    mr              \* a record:
                    \*   messages  the messages the loop has visited, in order
                    \*   produced  history: for each of them, the items it pushed
                    \*   input     `input`, the items pushed so far

\* concurrent calls of ensure_copilot_token (auth_flow.rs, main.rs)
VARIABLE
    ec              \* a record:
                    \*   copilot_token  config.copilot_token is Some
                    \*   tasks          refresh tasks schedule_copilot_refresh has spawned
                    \*   call           for each caller: pc ("idle", "requesting", "done",
                    \*                  "absent"), and history: it found a cached token,
                    \*                  it made the upstream call, it spawned a task

\* the Copilot branch of POST /chat/completions (routes/chat_completions.rs)
VARIABLE
    mt              \* a record:
                    \*   pc          "received" or "sent"
                    \*   model       payload.model of the request
                    \*   max_tokens  payload.max_tokens of the request
                    \*   models      config.models, the cached catalog
                    \*   sent        the request sent upstream: API, model, token limit

\* the tasks that take the lock of AppState.config (state.rs: Arc<RwLock<AppConfig>>)
VARIABLE
    lk              \* a record:
                    \*   path     for each task, the lock and I/O operations of the
                    \*            function it runs, in program order
                    \*   pc       for each task, how many of them it has completed
                    \*   in_io    the task is suspended in an I/O await
                    \*   writer   the task that holds the write guard, 0 if none
                    \*   readers  the tasks that hold a read guard

sa_vars == <<sa_pc, sa_state, sa_out, sa_n, sa_done_seen, sa_last_kind>>
sr_vars == <<sr_pc, sr_output_tokens, sr_out, sr_in>>
sc_vars == <<sc_pc, sc_chat_id, sc_input_tokens, sc_output_tokens,
             sc_saw_completed, sc_out, sc_in>>
rl_vars == <<rl_now, rl_config, rl_req>>
hd_vars == <<hd_hooks, hd_manual_approve, hd_workers, hd_req>>

hk_vars == <<hk>>
hk_pc == hk.pc
hk_log == hk.log
hk_result == hk.result
hk_response == hk.response
hk_cli == hk.cli

ob_vars == <<ob>>
ob_task == ob.task
ob_opened == ob.opened
ob_emitted == ob.emitted
ob_tail == ob.tail
ob_next == ob.next
ob_cur == ob.cur
ob_file == ob.file

rf_vars == <<rf>>
rf_pc == rf.pc
rf_github_token == rf.github_token
rf_token == rf.token
rf_ttl_left == rf.ttl_left
rf_next_refresh == rf.next_refresh
rf_sleep_left == rf.sleep_left
rf_issued == rf.issued
rf_since_fail == rf.since_fail
rf_gap == rf.gap
rf_result == rf.result

au_vars == <<au>>
au_github_token == au.github_token
au_dir_ok == au.dir_ok
au_file == au.file
au_ensure == au.ensure
au_interval == au.interval
au_pc == au.pc
au_polls == au.polls
au_sleep_ms == au.sleep_ms
au_token == au.token
au_result == au.result

rt_vars == <<rt>>
rt_env == rt.env
rt_endpoint == rt.endpoint
rt_model == rt.model
rt_pc == rt.pc
rt_sent == rt.sent
rt_chat_chain == rt.chat_chain
rt_msg_chain == rt.msg_chain

td_vars == <<td>>
td_st == td.st
td_n == td.n
td_chunk == td.chunk
td_before == td.before
td_ev == td.ev

mr_vars == <<mr>>
mr_messages == mr.messages
mr_produced == mr.produced
mr_input == mr.input

ec_vars == <<ec>>
ec_copilot_token == ec.copilot_token
ec_tasks == ec.tasks
ec_call == ec.call

mt_vars == <<mt>>
mt_pc == mt.pc
mt_model == mt.model
mt_max_tokens == mt.max_tokens
mt_models == mt.models
mt_sent == mt.sent

lk_vars == <<lk>>
lk_path == lk.path
lk_pc == lk.pc
lk_in_io == lk.in_io
lk_writer == lk.writer
lk_readers == lk.readers

vars == <<sa_vars, sr_vars, sc_vars, rl_vars, hd_vars, hk_vars, ob_vars, rf_vars, au_vars, rt_vars, td_vars, mr_vars, ec_vars, mt_vars, lk_vars>>

(***************************************************************************)
(* Upstream payloads of the chat-completions stream.                       *)
(***************************************************************************)
\* one element of delta.tool_calls: index, and whether id, function.name and
\* function.arguments are present as strings
ToolIndices == {0, 1}

ToolCallDeltas ==
    [index : ToolIndices, id : BOOLEAN, name : BOOLEAN, arguments : BOOLEAN]

FinishReasons == {"tool_calls"}

\* the delta.tool_calls arrays of the model: empty, one element, or two
\* complete tool calls (id, name and arguments), index 0 then index 1
ToolCallArrays ==
    {<<>>} \cup {<<tc>> : tc \in ToolCallDeltas}
    \cup {<<a, b>> : a \in {tc \in ToolCallDeltas :
                               tc.index = 0 /\ tc.id /\ tc.name /\ tc.arguments},
                     b \in {tc \in ToolCallDeltas :
                               tc.index = 1 /\ tc.id /\ tc.name /\ tc.arguments}}

\* a JSON chunk with choices[0]: delta.content, delta.tool_calls, finish_reason
ChoiceChunks ==
    [kind : {"json"}, choice : {TRUE}, content : BOOLEAN,
     tool_calls : ToolCallArrays,
     finish_reason : {"null"} \cup FinishReasons]

\* a JSON chunk without choices[0] (for example a usage-only chunk)
NoChoiceChunk ==
    [kind |-> "json", choice |-> FALSE, content |-> FALSE,
     tool_calls |-> <<>>, finish_reason |-> "null"]

\* data payloads that are not JSON chunks: blank data, [DONE], unparsable text
BlankPayload == [kind |-> "blank"]
DonePayload == [kind |-> "done"]
InvalidPayload == [kind |-> "invalid"]

ChatPayloads ==
    ChoiceChunks \cup {NoChoiceChunk, BlankPayload, DonePayload, InvalidPayload}

(***************************************************************************)
(* AnthropicStreamState and the events of the Anthropic wire format.       *)
(***************************************************************************)
AnthropicStreamStateDefault ==
    [message_start_sent |-> FALSE, content_block_index |-> 0,
     content_block_open |-> FALSE, tool_calls |-> <<>>]

is_tool_block_open(st) ==
    /\ st.content_block_open
    /\ \E i \in DOMAIN st.tool_calls :
            st.tool_calls[i].anthropic_block_index = st.content_block_index

map_openai_stop_reason(reason) ==
    CASE reason = "length" -> "max_tokens"
      [] reason = "tool_calls" -> "tool_use"
      [] reason = "content_filter" -> "content_filter"
      [] OTHER -> "end_turn"

anthropic_error_event == [type |-> "error"]

MessageStart == [type |-> "message_start"]
MessageStop == [type |-> "message_stop"]
MessageDelta(stop_reason) == [type |-> "message_delta", stop_reason |-> stop_reason]
ContentBlockStart(i, block) ==
    [type |-> "content_block_start", index |-> i, block |-> block]
ContentBlockDelta(i, delta) ==
    [type |-> "content_block_delta", index |-> i, delta |-> delta]
ContentBlockStop(i) == [type |-> "content_block_stop", index |-> i]


(***************************************************************************)
(* translate_chunk_to_anthropic_events.  Each part of the function takes   *)
(* and returns acc = [st |-> the stream state, ev |-> the events pushed    *)
(* so far], in the order the function runs them.                           *)
(***************************************************************************)
Push(acc, e) == [acc EXCEPT !.ev = Append(@, e)]

\* if !state.message_start_sent { push message_start; set the flag }
EmitMessageStart(acc) ==
    IF ~acc.st.message_start_sent
    THEN [st |-> [acc.st EXCEPT !.message_start_sent = TRUE],
          ev |-> Append(acc.ev, MessageStart)]
    ELSE acc

\* the block that closes the open content block and moves to the next index
CloseOpenBlock(acc) ==
    [st |-> [acc.st EXCEPT !.content_block_index = @ + 1,
                           !.content_block_open = FALSE],
     ev |-> Append(acc.ev, ContentBlockStop(acc.st.content_block_index))]

\* if let Some(content) = delta.content { ... }
TranslateContent(chunk, acc) ==
    IF ~chunk.content THEN acc
    ELSE
        LET a1 == IF is_tool_block_open(acc.st) THEN CloseOpenBlock(acc) ELSE acc
            a2 == IF ~a1.st.content_block_open
                  THEN [st |-> [a1.st EXCEPT !.content_block_open = TRUE],
                        ev |-> Append(a1.ev,
                                 ContentBlockStart(a1.st.content_block_index, "text"))]
                  ELSE a1
        IN Push(a2, ContentBlockDelta(a2.st.content_block_index, "text_delta"))

\* state.tool_calls.insert(index, ToolCallState { anthropic_block_index })
InsertToolCall(tool_calls, index, anthropic_index) ==
    [i \in DOMAIN tool_calls \cup {index} |->
        IF i = index THEN [anthropic_block_index |-> anthropic_index]
        ELSE tool_calls[i]]

\* mutant: the tool block is opened without closing the block that is open
OpenToolBlock_NoClose(tc, acc) ==
    IF ~(tc.id /\ tc.name) THEN acc
    ELSE
        LET anthropic_index ==
                IF acc.st.content_block_open
                THEN acc.st.content_block_index + 1
                ELSE acc.st.content_block_index
        IN [st |-> [acc.st EXCEPT
                      !.content_block_index = anthropic_index,
                      !.tool_calls = InsertToolCall(@, tc.index, anthropic_index),
                      !.content_block_open = TRUE],
            ev |-> Append(acc.ev, ContentBlockStart(anthropic_index, "tool_use"))]

\* if let (Some(id), Some(name)) = (id, name) { ... }
OpenToolBlock(tc, acc) ==
    IF ~(tc.id /\ tc.name) THEN acc
    ELSE
        LET a1 == IF acc.st.content_block_open THEN CloseOpenBlock(acc) ELSE acc
            anthropic_index == a1.st.content_block_index
        IN [st |-> [a1.st EXCEPT
                      !.tool_calls = InsertToolCall(@, tc.index, anthropic_index),
                      !.content_block_open = TRUE],
            ev |-> Append(a1.ev, ContentBlockStart(anthropic_index, "tool_use"))]

\* mutant: arguments for an upstream index that was never opened go to the
\* current block
EmitArguments_CurrentBlock(tc, acc) ==
    IF ~tc.arguments THEN acc
    ELSE IF tc.index \in DOMAIN acc.st.tool_calls
    THEN Push(acc, ContentBlockDelta(
                     acc.st.tool_calls[tc.index].anthropic_block_index,
                     "input_json_delta"))
    ELSE Push(acc, ContentBlockDelta(acc.st.content_block_index, "input_json_delta"))

\* if let Some(args) = function.arguments { if let Some(info) = tool_calls.get(index) }
EmitArguments(tc, acc) ==
    IF tc.arguments /\ tc.index \in DOMAIN acc.st.tool_calls
    THEN Push(acc, ContentBlockDelta(
                     acc.st.tool_calls[tc.index].anthropic_block_index,
                     "input_json_delta"))
    ELSE acc

\* the body of `for tool_call in tool_calls`
TranslateToolCall(tc, acc) == EmitArguments(tc, OpenToolBlock(tc, acc))

RECURSIVE TranslateToolCalls(_, _)
TranslateToolCalls(tcs, acc) ==
    IF tcs = <<>> THEN acc
    ELSE TranslateToolCalls(Tail(tcs), TranslateToolCall(Head(tcs), acc))

\* if let Some(reason) = choice.finish_reason { ... }
TranslateFinish(chunk, acc) ==
    IF chunk.finish_reason = "null" THEN acc
    ELSE
        LET a1 == IF acc.st.content_block_open
                  THEN [st |-> [acc.st EXCEPT !.content_block_open = FALSE],
                        ev |-> Append(acc.ev,
                                 ContentBlockStop(acc.st.content_block_index))]
                  ELSE acc
        IN [st |-> a1.st,
            ev |-> a1.ev \o <<MessageDelta(map_openai_stop_reason(chunk.finish_reason)),
                              MessageStop>>]

translate_chunk_to_anthropic_events(chunk, st) ==
    IF ~chunk.choice THEN [st |-> st, ev |-> <<>>]
    ELSE TranslateFinish(chunk,
           TranslateToolCalls(chunk.tool_calls,
             TranslateContent(chunk,
               EmitMessageStart([st |-> st, ev |-> <<>>]))))

(***************************************************************************)
(* stream_anthropic: the loop over the upstream payloads.                  *)
(***************************************************************************)
\* mutant: a payload that is not JSON also forgets the open block
HandleChatPayload_ErrorClosesBlock(p, st) ==
    CASE p.kind = "blank" -> [st |-> st, ev |-> <<>>]
      [] p.kind = "done" -> [st |-> st, ev |-> <<>>]
      [] p.kind = "invalid" -> [st |-> [st EXCEPT !.content_block_open = FALSE],
                                ev |-> <<anthropic_error_event>>]
      [] p.kind = "json" -> translate_chunk_to_anthropic_events(p, st)

\* what one data payload does to the stream state and which events it yields
HandleChatPayload(p, st) ==
    CASE p.kind = "blank" -> [st |-> st, ev |-> <<>>]
      [] p.kind = "done" -> [st |-> st, ev |-> <<>>]
      [] p.kind = "invalid" -> [st |-> st, ev |-> <<anthropic_error_event>>]
      [] p.kind = "json" -> translate_chunk_to_anthropic_events(p, st)

SaInit ==
    /\ sa_pc = "reading"
    /\ sa_state = AnthropicStreamStateDefault
    /\ sa_out = <<>>
    /\ sa_n = 0
    /\ sa_done_seen = FALSE
    /\ sa_last_kind = "none"

\* one iteration of the loops at lines 1022-1025 that finds a data payload
SaPayload ==
    /\ sa_pc = "reading"
    /\ sa_n < MaxPayloads
    /\ \E p \in ChatPayloads :
         LET r == HandleChatPayload(p, sa_state) IN
         /\ sa_state' = r.st
         /\ sa_out' = sa_out \o r.ev
         /\ sa_done_seen' = (sa_done_seen \/ p.kind = "done")
         /\ sa_last_kind' = p.kind
    /\ sa_n' = sa_n + 1
    /\ UNCHANGED sa_pc
    /\ UNCHANGED <<sr_vars, sc_vars, rl_vars, hd_vars, hk_vars, ob_vars, rf_vars, au_vars, rt_vars, td_vars, mr_vars, ec_vars, mt_vars, lk_vars>>

\* stream.next() returns None: the generator ends, nothing more is yielded
SaEndOfStream ==
    /\ sa_pc = "reading"
    /\ sa_pc' = "done"
    /\ UNCHANGED <<sa_state, sa_out, sa_n, sa_done_seen, sa_last_kind>>
    /\ UNCHANGED <<sr_vars, sc_vars, rl_vars, hd_vars, hk_vars, ob_vars, rf_vars, au_vars, rt_vars, td_vars, mr_vars, ec_vars, mt_vars, lk_vars>>


(***************************************************************************)
(* stream_anthropic_from_responses: Responses API stream -> Anthropic      *)
(* events.  One text block on index 0 is opened before the loop and closed *)
(* after it.                                                               *)
(***************************************************************************)
Texts == {"a", "b"}
OutputTokenValues == {5, 7}
\* an absent or non-string JSON string field
NoValue == "absent"
\* Option<T> for numbers and objects
None == [some |-> FALSE]
Some(v) == [some |-> TRUE, v |-> v]

\* a JSON payload: its "type", its "delta" when that is a string, and
\* response.usage.output_tokens when that is an unsigned number
ResponsesJson(type, delta, output_tokens) ==
    [kind |-> "json", type |-> type, delta |-> delta, output_tokens |-> output_tokens]

ResponsesPayloads ==
    {ResponsesJson("response.output_text.delta", d, None) :
        d \in Texts \cup {NoValue}}
    \cup {ResponsesJson("response.completed", NoValue, t) :
        t \in {Some(v) : v \in OutputTokenValues} \cup {None}}
    \cup {ResponsesJson("response.created", NoValue, None)}
    \cup {BlankPayload, DonePayload, InvalidPayload}

TextDelta(i, text) ==
    [type |-> "content_block_delta", index |-> i, delta |-> "text_delta", text |-> text]
ResponsesMessageDelta(output_tokens) ==
    [type |-> "message_delta", stop_reason |-> "end_turn",
     output_tokens |-> output_tokens]

\* the events one data payload yields (lines 1092-1128)
ResponsesPayloadEvents(p) ==
    CASE p.kind = "blank" -> <<>>
      [] p.kind = "done" -> <<>>
      [] p.kind = "invalid" -> <<anthropic_error_event>>
      [] p.kind = "json" ->
            IF p.type = "response.output_text.delta" /\ p.delta # NoValue
            THEN <<TextDelta(0, p.delta)>>
            ELSE <<>>

\* the value of `output_tokens` after one data payload (lines 1112-1121)
ResponsesPayloadTokens(p, output_tokens) ==
    IF /\ p.kind = "json"
       /\ p.type = "response.completed"
       /\ p.output_tokens.some
    THEN p.output_tokens.v
    ELSE output_tokens

\* mutant: the closing message_delta reports no output tokens
ResponsesClosingEvents_ZeroTokens(output_tokens) ==
    <<ContentBlockStop(0), ResponsesMessageDelta(0), MessageStop>>

\* the events yielded after the loop (lines 1134-1145)
ResponsesClosingEvents(output_tokens) ==
    <<ContentBlockStop(0), ResponsesMessageDelta(output_tokens), MessageStop>>

SrInit ==
    /\ sr_pc = "start"
    /\ sr_output_tokens = 0
    /\ sr_out = <<>>
    /\ sr_in = <<>>

\* the two events yielded before the loop: message_start, content_block_start
SrStart ==
    /\ sr_pc = "start"
    /\ sr_out' = <<MessageStart, ContentBlockStart(0, "text")>>
    /\ sr_pc' = "reading"
    /\ UNCHANGED <<sr_output_tokens, sr_in>>
    /\ UNCHANGED <<sa_vars, sc_vars, rl_vars, hd_vars, hk_vars, ob_vars, rf_vars, au_vars, rt_vars, td_vars, mr_vars, ec_vars, mt_vars, lk_vars>>

\* one data payload of the upstream stream
SrPayload ==
    /\ sr_pc = "reading"
    /\ Len(sr_in) < MaxResponsesPayloads
    /\ \E p \in ResponsesPayloads :
         /\ sr_out' = sr_out \o ResponsesPayloadEvents(p)
         /\ sr_output_tokens' = ResponsesPayloadTokens(p, sr_output_tokens)
         /\ sr_in' = Append(sr_in, p)
    /\ UNCHANGED sr_pc
    /\ UNCHANGED <<sa_vars, sc_vars, rl_vars, hd_vars, hk_vars, ob_vars, rf_vars, au_vars, rt_vars, td_vars, mr_vars, ec_vars, mt_vars, lk_vars>>

\* stream.next() returns None: the block and the message are closed
SrEndOfStream ==
    /\ sr_pc = "reading"
    /\ sr_out' = sr_out \o ResponsesClosingEvents(sr_output_tokens)
    /\ sr_pc' = "done"
    /\ UNCHANGED <<sr_output_tokens, sr_in>>
    /\ UNCHANGED <<sa_vars, sc_vars, rl_vars, hd_vars, hk_vars, ob_vars, rf_vars, au_vars, rt_vars, td_vars, mr_vars, ec_vars, mt_vars, lk_vars>>

(***************************************************************************)
(* stream_responses_as_chat_completion: Responses API stream ->            *)
(* chat.completion.chunk frames.  Every `data: ` line of a block is        *)
(* handled on its own; a line that is not JSON is skipped silently.        *)
(***************************************************************************)
ChatIds == {"chatcmpl-1", "chatcmpl-2"}
InputTokenValues == {3}

\* response.usage of a response.completed payload: absent, or an object whose
\* input_tokens / output_tokens may each be absent
Usages ==
    {None} \cup
    {Some(u) : u \in [input_tokens : {Some(v) : v \in InputTokenValues} \cup {None},
                      output_tokens : {Some(v) : v \in OutputTokenValues} \cup {None}]}

\* a JSON data line: its "type", its "delta" (any JSON value) when the key is
\* present, and response.usage
ChatJson(type, delta, usage) ==
    [kind |-> "json", type |-> type, delta |-> delta, usage |-> usage]

ChatDataLines ==
    {ChatJson("response.output_text.delta", d, None) : d \in Texts \cup {NoValue}}
    \cup {ChatJson("response.completed", d, u) : d \in {"a", NoValue}, u \in Usages}
    \cup {DonePayload, InvalidPayload}

\* build_chat_chunk: a chunk carrying the delta, finish_reason None
build_chat_chunk(id, delta) ==
    [frame |-> "chunk", id |-> id, delta |-> delta, finish_reason |-> "null"]

\* the final chunk: empty delta, finish_reason "stop" and the usage object
final_chunk(id, input_tokens, output_tokens) ==
    [frame |-> "chunk", id |-> id, delta |-> "{}", finish_reason |-> "stop",
     usage |-> [prompt_tokens |-> input_tokens,
                completion_tokens |-> output_tokens,
                total_tokens |-> input_tokens + output_tokens]]

DoneFrame == [frame |-> "[DONE]"]

\* usage.get(field).and_then(as_u64).unwrap_or(0)
UnwrapOrZero(o) == IF o.some THEN o.v ELSE 0

IsCompleted(p) == p.kind = "json" /\ p.type = "response.completed"

\* the frames one data line yields (lines 275-283)
ChatLineFrames(p, chat_id) ==
    IF p.kind = "json" /\ p.delta # NoValue
    THEN <<build_chat_chunk(chat_id, p.delta)>>
    ELSE <<>>

\* mutant: input_tokens and output_tokens are swapped when captured
ChatLineTokens_Swapped(p, input_tokens, output_tokens) ==
    IF IsCompleted(p) /\ p.usage.some
    THEN <<UnwrapOrZero(p.usage.v.output_tokens), UnwrapOrZero(p.usage.v.input_tokens)>>
    ELSE <<input_tokens, output_tokens>>

\* (input_tokens, output_tokens) after one data line (lines 285-289)
ChatLineTokens(p, input_tokens, output_tokens) ==
    IF IsCompleted(p) /\ p.usage.some
    THEN <<UnwrapOrZero(p.usage.v.input_tokens), UnwrapOrZero(p.usage.v.output_tokens)>>
    ELSE <<input_tokens, output_tokens>>

\* the frames yielded after the loop (lines 299-322)
ChatClosingFrames(saw_completed, chat_id, input_tokens, output_tokens) ==
    IF saw_completed
    THEN <<final_chunk(chat_id, input_tokens, output_tokens), DoneFrame>>
    ELSE <<>>

ScInit ==
    /\ sc_pc = "reading"
    /\ sc_chat_id \in ChatIds
    /\ sc_input_tokens = 0
    /\ sc_output_tokens = 0
    /\ sc_saw_completed = FALSE
    /\ sc_out = <<>>
    /\ sc_in = <<>>

\* one `data: ` line of the upstream stream
ScDataLine ==
    /\ sc_pc = "reading"
    /\ Len(sc_in) < MaxResponsesPayloads
    /\ \E p \in ChatDataLines :
         LET t == ChatLineTokens(p, sc_input_tokens, sc_output_tokens) IN
         /\ sc_out' = sc_out \o ChatLineFrames(p, sc_chat_id)
         /\ sc_input_tokens' = t[1]
         /\ sc_output_tokens' = t[2]
         /\ sc_saw_completed' = (sc_saw_completed \/ IsCompleted(p))
         /\ sc_in' = Append(sc_in, p)
    /\ UNCHANGED <<sc_pc, sc_chat_id>>
    /\ UNCHANGED <<sa_vars, sr_vars, rl_vars, hd_vars, hk_vars, ob_vars, rf_vars, au_vars, rt_vars, td_vars, mr_vars, ec_vars, mt_vars, lk_vars>>

\* stream.next() returns None
ScEndOfStream ==
    /\ sc_pc = "reading"
    /\ sc_out' = sc_out \o ChatClosingFrames(sc_saw_completed, sc_chat_id,
                                             sc_input_tokens, sc_output_tokens)
    /\ sc_pc' = "done"
    /\ UNCHANGED <<sc_chat_id, sc_input_tokens, sc_output_tokens,
                   sc_saw_completed, sc_in>>
    /\ UNCHANGED <<sa_vars, sr_vars, rl_vars, hd_vars, hk_vars, ob_vars, rf_vars, au_vars, rt_vars, td_vars, mr_vars, ec_vars, mt_vars, lk_vars>>

(***************************************************************************)
(* check_rate_limit, called by concurrent request handlers.  The clock is  *)
(* counted in ticks, TicksPerSecond to the second, so that requests can    *)
(* arrive a fraction of a second apart.  The code between taking the write *)
(* lock and releasing it holds no await: each critical section is one      *)
(* action.                                                                 *)
(***************************************************************************)
Requests == 1..MaxRequests
Limits == {1, 2}

\* mutant: the window is taken one second too short
WithinWindow_OneSecondShort(now, last, limit) ==
    now - last < (limit - 1) * TicksPerSecond

\* elapsed < limit as f64, with elapsed = now.duration_since(last)
WithinWindow(now, last, limit) == now - last < limit * TicksPerSecond

\* mutant: the remaining time is rounded down to whole seconds
WaitSecs_Floor(now, last, limit) ==
    (limit * TicksPerSecond - (now - last)) \div TicksPerSecond

\* (limit as f64 - elapsed).ceil() as u64, in seconds
WaitSecs(now, last, limit) ==
    LET remaining == limit * TicksPerSecond - (now - last)
    IN (remaining + TicksPerSecond - 1) \div TicksPerSecond

\* mutant: the sleep returns at once
WakeDeadline_NoSleep(now, wait_secs) == now

\* tokio::time::sleep(Duration::from_secs(wait_secs)): the deadline of the sleep
WakeDeadline(now, wait_secs) == now + wait_secs * TicksPerSecond

IdleRequest == [pc |-> "idle", result |-> "none", at |-> 0, wait_secs |-> 0, wake |-> 0]

RlInit ==
    /\ rl_now = 0
    /\ \E limit \in {Some(l) : l \in Limits} \cup {None}, wait \in BOOLEAN :
         rl_config = [rate_limit_seconds |-> limit, rate_limit_wait |-> wait,
                      last_request_timestamp |-> None]
    /\ rl_req = [r \in Requests |-> IdleRequest]

\* lines 4-21 and 30-31: the first critical section of a call, up to the
\* return or the drop(config) before the sleep
RlCallStep(r) ==
    /\ rl_req[r].pc = "idle"
    /\ LET limit == rl_config.rate_limit_seconds
           last == rl_config.last_request_timestamp
       IN
       IF ~limit.some
       THEN /\ rl_req' = [rl_req EXCEPT ![r] =
                            [@ EXCEPT !.pc = "returned", !.result = "ok", !.at = rl_now]]
            /\ UNCHANGED rl_config
       ELSE IF last.some /\ WithinWindow(rl_now, last.v, limit.v)
       THEN IF ~rl_config.rate_limit_wait
            THEN /\ rl_req' = [rl_req EXCEPT ![r] =
                                 [@ EXCEPT !.pc = "returned", !.result = "err",
                                           !.at = rl_now,
                                           !.wait_secs = WaitSecs(rl_now, last.v, limit.v)]]
                 /\ UNCHANGED rl_config
            ELSE /\ rl_req' = [rl_req EXCEPT ![r] =
                                 [@ EXCEPT !.pc = "sleeping",
                                           !.wait_secs = WaitSecs(rl_now, last.v, limit.v),
                                           !.wake = WakeDeadline(rl_now,
                                              WaitSecs(rl_now, last.v, limit.v))]]
                 /\ UNCHANGED rl_config
       ELSE /\ rl_config' = [rl_config EXCEPT !.last_request_timestamp = Some(rl_now)]
            /\ rl_req' = [rl_req EXCEPT ![r] =
                            [@ EXCEPT !.pc = "returned", !.result = "ok", !.at = rl_now]]
    /\ UNCHANGED rl_now

\* a request that calls check_rate_limit and nothing else
RlCall(r) ==
    /\ RlCallStep(r)
    /\ UNCHANGED <<sa_vars, sr_vars, sc_vars, hd_vars, hk_vars, ob_vars, rf_vars, au_vars, rt_vars, td_vars, mr_vars, ec_vars, mt_vars, lk_vars>>

\* lines 23-26: the sleep has elapsed (tokio wakes the sleeper no earlier than
\* the deadline); the lock is taken again and the timestamp is set
RlWakeStep(r) ==
    /\ rl_req[r].pc = "sleeping"
    /\ rl_now >= rl_req[r].wake
    /\ rl_config' = [rl_config EXCEPT !.last_request_timestamp = Some(rl_now)]
    /\ rl_req' = [rl_req EXCEPT ![r] =
                    [@ EXCEPT !.pc = "returned", !.result = "ok", !.at = rl_now]]
    /\ UNCHANGED rl_now

RlWake(r) ==
    /\ RlWakeStep(r)
    /\ UNCHANGED <<sa_vars, sr_vars, sc_vars, hd_vars, hk_vars, ob_vars, rf_vars, au_vars, rt_vars, td_vars, mr_vars, ec_vars, mt_vars, lk_vars>>

\* the clock advances, up to MaxTime and further on to the deadline of every
\* sleep that has started
RlTick ==
    /\ \/ rl_now < MaxTime
       \/ \E r \in Requests : rl_req[r].pc = "sleeping" /\ rl_now < rl_req[r].wake
    /\ rl_now' = rl_now + 1
    /\ UNCHANGED <<rl_config, rl_req>>
    /\ UNCHANGED <<sa_vars, sr_vars, sc_vars, hd_vars, hk_vars, ob_vars, rf_vars, au_vars, rt_vars, td_vars, mr_vars, ec_vars, mt_vars, lk_vars>>

(***************************************************************************)
(* The request handlers: POST /chat/completions, /v1/messages,             *)
(* /v1/responses and /embeddings.  A handler is an async fn; a step of the *)
(* model runs it from one await to the next one at which another request   *)
(* can observe a difference.  log records, in order, what the handler has  *)
(* called on behalf of the request.                                        *)
(***************************************************************************)
\* matching, enabled hooks of one event in hooks.json
MaxHooks == 2
\* worker threads of the runtime (#[tokio::main]: one per core)
MaxWorkers == 2

Endpoints == {"chat_completions", "messages", "responses", "embeddings"}

\* the provider paths of each handler, after the COPILOT_PROVIDER, model
\* prefix and load_azure_config tests have been made
RoutesOf(endpoint) ==
    CASE endpoint = "chat_completions" ->
            {"azure", "openai", "openai_requires_responses",
             "copilot_chat", "copilot_responses"}
      [] endpoint = "messages" -> {"anthropic", "copilot_chat", "copilot_responses"}
      [] endpoint = "responses" -> {"azure", "openai", "copilot_responses"}
      [] endpoint = "embeddings" -> {"azure", "openai", "copilot_embeddings"}

CopilotRoutes == {"copilot_chat", "copilot_responses", "copilot_embeddings"}

\* the handlers that call hooks.execute_event("PreToolUse", ..) on entry
PreHooked(endpoint) == endpoint \in {"chat_completions", "messages"}

\* the paths that call hooks.execute_event("PostToolUse", ..) before answering
PostHooked(endpoint, route) ==
    \/ endpoint = "chat_completions" /\ route = "copilot_chat"
    \/ endpoint = "messages" /\ route \in {"anthropic", "copilot_chat"}

\* errors.rs: ApiError, its status code and its response
ApiError(kind, message) == [kind |-> kind, message |-> message]

status_code(err) ==
    CASE err.kind = "BadRequest" -> 400
      [] err.kind = "Unauthorized" -> 401
      [] err.kind = "NotFound" -> 404
      [] err.kind = "Upstream" -> 502
      [] err.kind = "Internal" -> 500

\* body {"error":{"message": ..}}
into_response(err) ==
    [status |-> status_code(err), body |-> [kind |-> "error", message |-> err.message]]

\* Ok(sse_response(stream)) and Ok(Json(json).into_response())
SuccessResponse(kind) == [status |-> 200, body |-> [kind |-> kind, message |-> ""]]

NoResponse == [status |-> 0, body |-> [kind |-> "none", message |-> ""]]

\* what one hook of an event does when it is run
HookOutcomes == {"exit0", "nonzero", "spawn_failed", "timeout"}

\* the outcomes of the matching, enabled hooks of an event, in hooks.json order
HookRuns == UNION {[1..n -> HookOutcomes] : n \in 0..MaxHooks}

\* the outcomes that are an Err of run_command or run_builtin: the three
\* map_err of run_command, and the map_err of the builtins' file operations
HookErrors == {"spawn_failed", "timeout", "io_error"}

HookError(outcome) ==
    CASE outcome = "spawn_failed" -> ApiError("Internal", "Failed to spawn hook command")
      [] outcome = "timeout" -> ApiError("Internal", "Hook command timeout")
      [] outcome = "io_error" -> ApiError("Internal", "Hook failed")

\* position of the first hook of the run that fails to spawn or times out, or 0
FirstFailure(run) ==
    IF \E k \in DOMAIN run : run[k] \in HookErrors
    THEN CHOOSE k \in DOMAIN run :
            /\ run[k] \in HookErrors
            /\ \A j \in 1..(k - 1) : run[j] \notin HookErrors
    ELSE 0

\* mutant: a hook that exits non-zero ends the event, and the results up to
\* it are returned
execute_event_StopsAtNonZero(run) ==
    LET k == FirstFailure(run)
        n == IF \E j \in DOMAIN run : run[j] = "nonzero"
             THEN CHOOSE j \in DOMAIN run :
                     run[j] = "nonzero" /\ \A i \in 1..(j - 1) : run[i] # "nonzero"
             ELSE 0 IN
    IF n # 0 /\ (k = 0 \/ n < k)
    THEN [ok |-> TRUE, ran |-> SubSeq(run, 1, n), err |-> ApiError("none", "")]
    ELSE IF k = 0
    THEN [ok |-> TRUE, ran |-> run, err |-> ApiError("none", "")]
    ELSE [ok |-> FALSE, ran |-> SubSeq(run, 1, k), err |-> HookError(run[k])]

\* HookExecutor::execute_event: the hooks run in order and the first `?` that
\* fails returns the error; ran is the hooks that were run
execute_event(run) ==
    LET k == FirstFailure(run) IN
    IF k = 0
    THEN [ok |-> TRUE, ran |-> run, err |-> ApiError("none", "")]
    ELSE [ok |-> FALSE, ran |-> SubSeq(run, 1, k), err |-> HookError(run[k])]

\* the outcomes other than exit code 0 among the hooks that were run
Failures(ran) == {ran[k] : k \in DOMAIN ran} \ {"exit0"}

\* mutant: only the result of the last hook is looked at
PreHookVerdict_LastOnly(result) ==
    IF ~result.ok THEN [ok |-> FALSE, err |-> result.err]
    ELSE IF result.ran # <<>> /\ result.ran[Len(result.ran)] = "nonzero"
    THEN [ok |-> FALSE, err |-> ApiError("BadRequest", "Hook blocked request")]
    ELSE [ok |-> TRUE, err |-> ApiError("none", "")]

\* let results = hooks.execute_event(..).await?;
\* if results.iter().any(|r| r.exit_code != 0) { return Err(BadRequest(..)) }
PreHookVerdict(result) ==
    IF ~result.ok THEN [ok |-> FALSE, err |-> result.err]
    ELSE IF \E k \in DOMAIN result.ran : result.ran[k] = "nonzero"
    THEN [ok |-> FALSE, err |-> ApiError("BadRequest", "Hook blocked request")]
    ELSE [ok |-> TRUE, err |-> ApiError("none", "")]

\* the operator's answer to Confirm::interact(); "failed" is an Err of interact
PromptAnswers == {"yes", "no", "failed"}

\* mutant: a failed prompt counts as an approval
ApprovalVerdict_FailedApproves(answer) ==
    IF answer \in {"yes", "failed"}
    THEN [ok |-> TRUE, err |-> ApiError("none", "")]
    ELSE [ok |-> FALSE, err |-> ApiError("Unauthorized", "Request rejected")]

\* .interact().unwrap_or(false); if approved { Ok(()) } else { Err(Unauthorized) }
ApprovalVerdict(answer) ==
    IF answer = "yes"
    THEN [ok |-> TRUE, err |-> ApiError("none", "")]
    ELSE [ok |-> FALSE, err |-> ApiError("Unauthorized", "Request rejected")]

\* mutant: the error of a PostToolUse hook is returned to the client
PostHookResponse_Propagates(pending, result) ==
    IF result.ok THEN pending ELSE into_response(result.err)

\* let _ = hooks.execute_event("PostToolUse", &input).await; Ok(..)
PostHookResponse(pending, result) == pending

\* the requests whose handlers run concurrently, numbered in order of arrival
Handlers == {1, 2}

\* log: the calls the handler has made for the request, in order (an entry
\* "PreToolUse" or "PostToolUse" is a call of execute_event, which starts by
\* emitting the observation event); pre_failures, post_failures: the outcomes
\* other than exit code 0 of the hooks that were run for the request; answer:
\* what the operator answered to the prompt for the request
IdleHandler ==
    [pc |-> "idle", endpoint |-> "none", route |-> "none", log |-> <<>>,
     pre_failures |-> {}, answer |-> "none", post_failures |-> {},
     pending |-> NoResponse, response |-> NoResponse]

\* the handler of r returns this response
Respond(req, response) == [req EXCEPT !.pc = "responded", !.response = response]

Log(req, entries) == [req EXCEPT !.log = @ \o entries]

\* a worker thread is free to poll the handler of r: Confirm::interact()
\* blocks the thread it is called on until the operator has answered
CanRun(r) ==
    Cardinality({q \in Handlers \ {r} : hd_req[q].pc = "prompting"}) < hd_workers

\* the number of worker threads makes no difference when no prompt is shown
HdInit ==
    /\ hd_hooks \in BOOLEAN
    /\ hd_manual_approve \in BOOLEAN
    /\ hd_workers \in 1..MaxWorkers
    /\ ~hd_manual_approve => hd_workers = 1
    /\ hd_req = [r \in Handlers |-> IdleHandler]

\* handle, up to the first gate: the request enters the handler of its
\* endpoint; chat_completions::handle and messages::handle run the PreToolUse
\* hooks (if let Some(hooks) = &state.hooks), responses::handle and embeddings
\* go straight to check_manual_approval
HdPreToolUse(r) ==
    /\ hd_req[r].pc = "idle"
    /\ \A q \in Handlers : q < r => hd_req[q].pc # "idle"
    /\ CanRun(r)
    /\ \E endpoint \in Endpoints, run \in HookRuns :
         LET req == [hd_req[r] EXCEPT !.endpoint = endpoint] IN
         IF PreHooked(endpoint) /\ hd_hooks
         THEN LET result == execute_event(run)
                  verdict == PreHookVerdict(result)
                  ran == [Log(req, <<"PreToolUse">>) EXCEPT
                             !.pre_failures = Failures(result.ran)]
              IN hd_req' = [hd_req EXCEPT ![r] =
                     IF verdict.ok THEN [ran EXCEPT !.pc = "approval"]
                     ELSE Respond(ran, into_response(verdict.err))]
         ELSE /\ run = <<>>
              /\ hd_req' = [hd_req EXCEPT ![r] = [req EXCEPT !.pc = "approval"]]
    /\ UNCHANGED <<hd_hooks, hd_manual_approve, hd_workers>>
    /\ UNCHANGED <<sa_vars, sr_vars, sc_vars, rl_vars, hk_vars, ob_vars, rf_vars, au_vars, rt_vars, td_vars, mr_vars, ec_vars, mt_vars, lk_vars>>

\* check_manual_approval, lines 5-10: Ok when manual_approve is off, else the
\* read lock is dropped and the prompt is shown
HdApproval(r) ==
    /\ hd_req[r].pc = "approval"
    /\ CanRun(r)
    /\ hd_req' = [hd_req EXCEPT ![r] =
                    [Log(@, <<"approval">>) EXCEPT
                        !.pc = IF hd_manual_approve THEN "prompting" ELSE "rate_limit"]]
    /\ UNCHANGED <<hd_hooks, hd_manual_approve, hd_workers>>
    /\ UNCHANGED <<sa_vars, sr_vars, sc_vars, rl_vars, hk_vars, ob_vars, rf_vars, au_vars, rt_vars, td_vars, mr_vars, ec_vars, mt_vars, lk_vars>>

\* check_manual_approval, lines 12-22: the operator answers the prompt
HdPromptAnswer(r) ==
    /\ hd_req[r].pc = "prompting"
    /\ \E answer \in PromptAnswers :
         LET verdict == ApprovalVerdict(answer)
             req == [hd_req[r] EXCEPT !.answer = answer]
         IN hd_req' = [hd_req EXCEPT ![r] =
                         IF verdict.ok THEN [req EXCEPT !.pc = "rate_limit"]
                         ELSE Respond(req, into_response(verdict.err))]
    /\ UNCHANGED <<hd_hooks, hd_manual_approve, hd_workers>>
    /\ UNCHANGED <<sa_vars, sr_vars, sc_vars, rl_vars, hk_vars, ob_vars, rf_vars, au_vars, rt_vars, td_vars, mr_vars, ec_vars, mt_vars, lk_vars>>

\* check_rate_limit(&state).await?: the first critical section of the call
HdRateLimit(r) ==
    /\ hd_req[r].pc = "rate_limit"
    /\ CanRun(r)
    /\ RlCallStep(r)
    /\ hd_req' = [hd_req EXCEPT ![r] =
         LET req == Log(@, <<"rate_limit">>) IN
         CASE rl_req'[r].pc = "sleeping" -> [req EXCEPT !.pc = "rate_sleep"]
           [] rl_req'[r].result = "ok" -> [req EXCEPT !.pc = "provider"]
           [] OTHER ->
                Respond(req, into_response(ApiError("BadRequest", "Rate limit exceeded")))]
    /\ UNCHANGED <<hd_hooks, hd_manual_approve, hd_workers>>
    /\ UNCHANGED <<sa_vars, sr_vars, sc_vars, hk_vars, ob_vars, rf_vars, au_vars, rt_vars, td_vars, mr_vars, ec_vars, mt_vars, lk_vars>>

\* check_rate_limit in wait-mode: the sleep has elapsed and the call returns Ok
HdRateWake(r) ==
    /\ hd_req[r].pc = "rate_sleep"
    /\ CanRun(r)
    /\ RlWakeStep(r)
    /\ hd_req' = [hd_req EXCEPT ![r] = [@ EXCEPT !.pc = "provider"]]
    /\ UNCHANGED <<hd_hooks, hd_manual_approve, hd_workers>>
    /\ UNCHANGED <<sa_vars, sr_vars, sc_vars, hk_vars, ob_vars, rf_vars, au_vars, rt_vars, td_vars, mr_vars, ec_vars, mt_vars, lk_vars>>

\* what can happen on a provider path, from provider selection to the
\* response in hand: ensure_copilot_token fails, the model or the input is
\* refused before any upstream call, the upstream call fails, its buffered
\* body is not JSON, or there is a streamed or a buffered upstream response
ProviderOutcomes(endpoint, route) ==
    IF route = "openai_requires_responses" THEN {"requires_responses"}
    ELSE {"upstream_failed", "invalid_body", "json"}
         \cup (IF endpoint # "embeddings" THEN {"sse"} ELSE {})
         \cup (IF route \in CopilotRoutes THEN {"token_missing", "token_failed"} ELSE {})
         \cup (IF route = "copilot_responses" /\ endpoint \in {"chat_completions", "messages"}
               THEN {"no_input"} ELSE {})

\* the calls the handler makes on the path, in order
ProviderLog(route, outcome) ==
    (IF route \in CopilotRoutes THEN <<"token">> ELSE <<>>)
    \o (IF outcome \in {"upstream_failed", "invalid_body", "json", "sse"}
        THEN <<"upstream">> ELSE <<>>)

ProviderError(outcome) ==
    CASE outcome = "requires_responses" ->
            ApiError("BadRequest", "Model requires /v1/responses when using OpenAI provider")
      [] outcome = "token_missing" ->
            ApiError("Unauthorized", "GitHub token not found. Run device auth first.")
      [] outcome = "token_failed" -> ApiError("Upstream", "Failed to get Copilot token")
      [] outcome = "no_input" -> ApiError("BadRequest", "No valid input messages")
      [] outcome = "upstream_failed" -> ApiError("Upstream", "Failed to create")
      [] outcome = "invalid_body" -> ApiError("Upstream", "Invalid response")

\* handle, from provider selection to the response or to the PostToolUse hooks
HdProvider(r) ==
    /\ hd_req[r].pc = "provider"
    /\ CanRun(r)
    /\ \E route \in RoutesOf(hd_req[r].endpoint) :
       \E outcome \in ProviderOutcomes(hd_req[r].endpoint, route) :
         LET req == [Log(hd_req[r], ProviderLog(route, outcome)) EXCEPT !.route = route] IN
         hd_req' = [hd_req EXCEPT ![r] =
             IF outcome \notin {"sse", "json"}
             THEN Respond(req, into_response(ProviderError(outcome)))
             ELSE IF PostHooked(req.endpoint, route) /\ hd_hooks
             THEN [req EXCEPT !.pc = "post_hooks", !.pending = SuccessResponse(outcome)]
             ELSE Respond(req, SuccessResponse(outcome))]
    /\ UNCHANGED <<hd_hooks, hd_manual_approve, hd_workers>>
    /\ UNCHANGED <<sa_vars, sr_vars, sc_vars, rl_vars, hk_vars, ob_vars, rf_vars, au_vars, rt_vars, td_vars, mr_vars, ec_vars, mt_vars, lk_vars>>

\* let _ = hooks.execute_event("PostToolUse", &input).await; then the response
HdPostToolUse(r) ==
    /\ hd_req[r].pc = "post_hooks"
    /\ CanRun(r)
    /\ \E run \in HookRuns :
         LET result == execute_event(run)
             req == [Log(hd_req[r], <<"PostToolUse">>) EXCEPT
                        !.post_failures = Failures(result.ran)]
         IN hd_req' = [hd_req EXCEPT ![r] =
                Respond(req, PostHookResponse(req.pending, result))]
    /\ UNCHANGED <<hd_hooks, hd_manual_approve, hd_workers>>
    /\ UNCHANGED <<sa_vars, sr_vars, sc_vars, rl_vars, hk_vars, ob_vars, rf_vars, au_vars, rt_vars, td_vars, mr_vars, ec_vars, mt_vars, lk_vars>>

\* the requests of the handler specification arrive within one tick of the
\* clock; time passes while a handler sleeps in check_rate_limit
HdTick ==
    /\ \E r \in Handlers : hd_req[r].pc = "rate_sleep"
    /\ RlTick

(***************************************************************************)
(* The specifications.                                                     *)
(***************************************************************************)
\* the state of a component that does not run in a specification
SaIdle == SaInit
SrIdle == SrInit
ScIdle == ScInit /\ sc_chat_id = "chatcmpl-1"
RlIdle ==
    /\ RlInit
    /\ rl_config.rate_limit_seconds = None
    /\ ~rl_config.rate_limit_wait

HdIdle ==
    /\ HdInit
    /\ ~hd_hooks
    /\ ~hd_manual_approve
    /\ hd_workers = 1

(***************************************************************************)
(* hooks/executor.rs: execute_event walking the manifest, and run_command. *)
(***************************************************************************)
\* manifest entries (hooks of all configs of the event) one call visits
MaxEntries == 3
\* a hook process ends strictly between runtime and runtime + 1 seconds
MaxRuntime == 1
\* the values of "timeout" in hooks.json, in seconds
HookTimeouts == 1..MaxRuntime

\* what the child process of a command hook does: whether it can be spawned,
\* how long it runs, and how it ends (a process killed by a signal has no
\* code; "io_error": waiting for its output fails).  For a builtin: how the
\* function ends ("io_error": one of its file operations fails)
NoProc == [spawns |-> FALSE, runtime |-> 0, exit |-> "zero"]
Procs ==
    {NoProc} \cup
    [spawns : {TRUE}, runtime : 0..MaxRuntime,
     exit : {"zero", "nonzero", "signal", "io_error"}]

\* the child process was spawned and is still running when the entry's
\* timeout ends
Overran(timeout, proc) == proc.spawns /\ timeout.some /\ proc.runtime >= timeout.v

\* mutant: a hook that runs out of time is reported as a non-zero exit code
run_command_TimeoutIsExitCode(timeout, proc) ==
    IF ~proc.spawns THEN "spawn_failed"
    ELSE IF timeout.some /\ proc.runtime >= timeout.v THEN "nonzero"
    ELSE IF proc.exit = "io_error" THEN "io_error"
    ELSE IF proc.exit = "zero" THEN "exit0"
    ELSE "nonzero"

\* run_command: cmd.spawn() .map_err(Internal)?; with Some(secs) the wait is
\* wrapped in tokio::time::timeout(secs) .map_err(Internal("Hook command
\* timeout"))?; the wait's own error .map_err(Internal("Hook command
\* failed"))?; exit_code = status.code().unwrap_or(1)
run_command(timeout, proc) ==
    IF ~proc.spawns THEN "spawn_failed"
    ELSE IF timeout.some /\ proc.runtime >= timeout.v THEN "timeout"
    ELSE IF proc.exit = "io_error" THEN "io_error"
    ELSE IF proc.exit = "zero" THEN "exit0"
    ELSE "nonzero"

\* builtins::run_builtin: Ok with exit code 0 or 1, or the Err of a file
\* operation
run_builtin(proc) ==
    IF proc.exit = "io_error" THEN "io_error"
    ELSE IF proc.exit = "zero" THEN "exit0"
    ELSE "nonzero"

\* evaluator::evaluate(&config.matcher, input): Ok(true), Ok(false) or Err
MatcherResults == {"true", "false", "error"}

\* .unwrap_or(false)
Matched(m) == m = "true"

\* hook.hook_type: "builtin", "command", or anything else
HookTypes == {"builtin", "command", "other"}

\* the outcomes of the hooks that were run, in the order they were run
Ran(log) ==
    LET RECURSIVE ran(_)
        ran(k) ==
            IF k = 0 THEN <<>>
            ELSE IF log[k].outcome = "skipped" THEN ran(k - 1)
            ELSE Append(ran(k - 1), log[k].outcome)
    IN ran(Len(log))

\* the `?` of execute_event has returned: a hook that was run ended in an Err
Aborted(log) == FirstFailure(Ran(log)) # 0

\* the entry the loops visit next: `first` starts a new config, whose matcher
\* is then evaluated; the hooks of one config share the matcher's result;
\* overran records that the hook was run and its process outlived its timeout
HkEntry(first, matched, enabled, hook_type, timeout, proc) ==
    [first |-> first, matched |-> matched, enabled |-> enabled,
     hook_type |-> hook_type,
     overran |-> Matched(matched) /\ enabled /\ hook_type = "command"
                 /\ Overran(timeout, proc),
     outcome |->
        IF ~Matched(matched) \/ ~enabled THEN "skipped"
        ELSE IF hook_type = "command" THEN run_command(timeout, proc)
        ELSE IF hook_type = "builtin" THEN run_builtin(proc)
        ELSE "exit0"]

\* the `hook` command has not ended
NoExit == [echoed |-> FALSE, status |-> 0]

\* ApiResult<Vec<HookResult>>::unwrap_or_default: the results, or no results
unwrap_or_default(result) == IF result.ok THEN result.ran ELSE <<>>

\* main.rs, Command::Hook: blocked = results.iter().any(|r| r.exit_code != 0);
\* println!(input); if blocked { exit(1) }; return
hook_command(result) ==
    LET results == unwrap_or_default(result)
        blocked == \E k \in DOMAIN results : results[k] = "nonzero" IN
    [echoed |-> TRUE, status |-> IF blocked THEN 1 ELSE 0]

HkInit ==
    hk = [pc |-> "running",
          log |-> <<>>,
          result |-> [ok |-> TRUE, ran |-> <<>>, err |-> ApiError("none", "")],
          response |-> NoResponse,
          cli |-> NoExit]

\* one iteration of `for hook in &config.hooks` (or of `for config in
\* entries` when the matcher does not match): skip the entry or run the hook
HkVisit ==
    /\ hk_pc = "running"
    /\ Len(hk_log) < MaxEntries
    /\ ~Aborted(hk_log)
    /\ \E first \in BOOLEAN, matched \in MatcherResults, enabled \in BOOLEAN,
          hook_type \in HookTypes, timeout \in {None} \cup {Some(t) : t \in HookTimeouts},
          proc \in Procs :
          \* the first entry starts a config; later hooks of a config share
          \* its matcher result
          /\ hk_log = <<>> => first
          /\ (hk_log # <<>> /\ ~first) => matched = hk_log[Len(hk_log)].matched
          \* what is never looked at is not drawn
          /\ (~Matched(matched) \/ ~enabled) =>
                (hook_type = "command" /\ timeout = None /\ proc = NoProc)
          /\ ~Matched(matched) => enabled
          /\ hook_type = "other" => (timeout = None /\ proc = NoProc)
          /\ hook_type = "builtin" =>
                (timeout = None /\ proc.spawns /\ proc.runtime = 0 /\ proc.exit # "signal")
          /\ hk' = [hk EXCEPT !.log = Append(hk_log,
                        HkEntry(first, matched, enabled, hook_type, timeout, proc))]
    /\ UNCHANGED <<sa_vars, sr_vars, sc_vars, rl_vars, hd_vars, ob_vars, rf_vars, au_vars, rt_vars, td_vars, mr_vars, ec_vars, mt_vars, lk_vars>>

\* execute_event returns (Ok(results), or the Err of the `?`), and the handler
\* turns the result of the PreToolUse call into its answer
HkReturn ==
    /\ hk_pc = "running"
    /\ LET result == execute_event(Ran(hk_log))
           verdict == PreHookVerdict(result) IN
       hk' = [hk EXCEPT !.pc = "returned",
                        !.result = result,
                        !.response = IF verdict.ok THEN NoResponse
                                     ELSE into_response(verdict.err)]
    /\ UNCHANGED <<sa_vars, sr_vars, sc_vars, rl_vars, hd_vars, ob_vars, rf_vars, au_vars, rt_vars, td_vars, mr_vars, ec_vars, mt_vars, lk_vars>>

\* the `hook` command: execute_event returns to main, which prints the input
\* and ends the process
HkHookCommand ==
    /\ hk_pc = "running"
    /\ LET result == execute_event(Ran(hk_log)) IN
       hk' = [hk EXCEPT !.pc = "exited",
                        !.result = result,
                        !.cli = hook_command(result)]
    /\ UNCHANGED <<sa_vars, sr_vars, sc_vars, rl_vars, hd_vars, ob_vars, rf_vars, au_vars, rt_vars, td_vars, mr_vars, ec_vars, mt_vars, lk_vars>>

\* no hook event is being executed
HkIdle == hk = [pc |-> "absent"]

(***************************************************************************)
(* hooks/observe/mod.rs: ObservationHub::emit and the task of              *)
(* start_observer.  Events are numbered in emission order.                 *)
(***************************************************************************)
\* capacity of the broadcast channel; the model runs broadcast::channel(128)
\* with a smaller ring
ChannelCapacity == 2
\* calls of execute_event (with an observer) in one run
MaxEvents == 5

\* tokio broadcast: the ring keeps the last ChannelCapacity values; a receiver
\* whose next value has been overwritten gets Err(RecvError::Lagged(n))
Lagged(tail, next) == tail - next > ChannelCapacity

ObInit ==
    ob = [task |-> "opening", opened |-> FALSE, emitted |-> 0, tail |-> 0,
          next |-> 0, cur |-> 0, file |-> <<>>]

\* execute_event: if let Some(observer) = &self.observer { observer.emit(..) }
\* emit: let _ = self.sender.send(event); send returns Err, storing nothing,
\* when the receiver has been dropped
ObEmit ==
    /\ ob_emitted < MaxEvents
    /\ ob' = [ob EXCEPT !.emitted = ob_emitted + 1,
                        !.tail = IF ob_task # "exited" THEN ob_tail + 1 ELSE ob_tail]
    /\ UNCHANGED <<sa_vars, sr_vars, sc_vars, rl_vars, hd_vars, hk_vars, rf_vars, au_vars, rt_vars, td_vars, mr_vars, ec_vars, mt_vars, lk_vars>>

\* let mut file = match OpenOptions::new().create(true).append(true).open(..)
\*     { Ok(f) => f, Err(_) => return };
ObOpen ==
    /\ ob_task = "opening"
    /\ \E ok \in BOOLEAN :
          ob' = [ob EXCEPT !.opened = ok,
                           !.task = IF ok THEN "receiving" ELSE "exited"]
    /\ UNCHANGED <<sa_vars, sr_vars, sc_vars, rl_vars, hd_vars, hk_vars, rf_vars, au_vars, rt_vars, td_vars, mr_vars, ec_vars, mt_vars, lk_vars>>

\* while let Ok(event) = receiver.recv().await: recv completes when a value is
\* waiting; Err(Lagged) ends the loop and with it the task
ObRecv ==
    /\ ob_task = "receiving"
    /\ ob_next < ob_tail
    /\ ob' = IF Lagged(ob_tail, ob_next)
             THEN [ob EXCEPT !.task = "exited",
                             !.next = ob_tail - ChannelCapacity]
             ELSE [ob EXCEPT !.task = "writing",
                             !.next = ob_next + 1,
                             !.cur = ob_next + 1]
    /\ UNCHANGED <<sa_vars, sr_vars, sc_vars, rl_vars, hd_vars, hk_vars, rf_vars, au_vars, rt_vars, td_vars, mr_vars, ec_vars, mt_vars, lk_vars>>

\* let _ = write_all(&mut file, line).await; let _ = write_all(.., b"\n").await;
\* a failed write is ignored and the loop goes on
ObWrite ==
    /\ ob_task = "writing"
    /\ \E ok \in BOOLEAN :
          ob' = [ob EXCEPT !.task = "receiving",
                           !.file = IF ok THEN Append(ob_file, ob_cur) ELSE ob_file]
    /\ UNCHANGED <<sa_vars, sr_vars, sc_vars, rl_vars, hd_vars, hk_vars, rf_vars, au_vars, rt_vars, td_vars, mr_vars, ec_vars, mt_vars, lk_vars>>

\* no observer: main.rs starts none when hooks are disabled
ObIdle == ob = [task |-> "absent"]

(***************************************************************************)
(* auth_flow.rs: ensure_copilot_token and schedule_copilot_refresh.        *)
(* Durations are in seconds; the clock advances TickSeconds at a time and  *)
(* the timers are kept relative to it.                                     *)
(***************************************************************************)
\* next_refresh.saturating_sub(60)
RefreshMargin == 60
\* next_refresh = 300 after a failed request
RefreshBackoff == 300
\* one step of the clock: the durations of the model are multiples of it
TickSeconds == RefreshMargin
\* distinct token values the upstream issues before it repeats one
MaxTokens == 3

\* what /copilot_internal/v2/token answers: refresh_in, and expires_at given
\* as the seconds from the answer to it
CopilotResponses ==
    {[refresh_in |-> 1500, expires_in |-> 1800],
     [refresh_in |-> 120, expires_in |-> 300],
     [refresh_in |-> 60, expires_in |-> 300]}

\* the longest time the history variables measure
MaxMeasured == 360

Min(a, b) == IF a < b THEN a ELSE b
Monus(a, b) == IF a > b THEN a - b ELSE 0

\* let wait_secs = next_refresh.saturating_sub(60);
RefreshWait(next_refresh) == Monus(next_refresh, RefreshMargin)

\* the token value the upstream issues next
NextIssued(issued) == (issued % MaxTokens) + 1

\* the state before the first ensure_copilot_token call
RfStart(github_token) ==
    [pc |-> "none", github_token |-> github_token, token |-> None, ttl_left |-> 0,
     next_refresh |-> 0, sleep_left |-> 0, issued |-> 0, since_fail |-> None,
     gap |-> None, result |-> "none"]

RfInit == \E github_token \in BOOLEAN : rf = RfStart(github_token)

\* ensure_copilot_token up to its request: the cached token is returned if
\* there is one; ensure_github_token returns the cached GitHub token or reads
\* and caches the persisted one, and its Err is returned by `?`
RfEnsureCall ==
    /\ rf_pc = "none"
    /\ rf_token = None
    /\ \E found \in BOOLEAN :
          rf' = IF rf_github_token \/ found
                THEN [rf EXCEPT !.github_token = TRUE, !.pc = "ensuring", !.result = "none"]
                ELSE [rf EXCEPT !.result = "Unauthorized"]
    /\ UNCHANGED <<sa_vars, sr_vars, sc_vars, rl_vars, hd_vars, hk_vars, ob_vars, au_vars, rt_vars, td_vars, mr_vars, ec_vars, mt_vars, lk_vars>>

\* the cached token, its lifetime and next_refresh after an Ok(response)
Refreshed(state, response) ==
    [state EXCEPT !.issued = NextIssued(state.issued),
                  !.token = Some(NextIssued(state.issued)),
                  !.ttl_left = response.expires_in,
                  !.next_refresh = response.refresh_in,
                  !.sleep_left = RefreshWait(response.refresh_in),
                  !.pc = "sleeping"]

\* get_copilot_token(..).await? in ensure_copilot_token: on Ok the token is
\* cached and schedule_copilot_refresh(state, response.refresh_in) spawns the
\* task, which computes wait_secs and sleeps if it is positive
RfEnsureResponse ==
    /\ rf_pc = "ensuring"
    /\ \/ \E response \in CopilotResponses :
            rf' = [Refreshed(rf, response) EXCEPT !.result = "Ok"]
       \/ rf' = [rf EXCEPT !.pc = "none", !.result = "Upstream"]
    /\ UNCHANGED <<sa_vars, sr_vars, sc_vars, rl_vars, hd_vars, hk_vars, ob_vars, au_vars, rt_vars, td_vars, mr_vars, ec_vars, mt_vars, lk_vars>>

\* mutant: the task gives up at the first failed request
OnRefreshError_Exit == [pc |-> "exited", next_refresh |-> RefreshBackoff]

\* Err(err) => { tracing::warn!(..); next_refresh = 300; } and the loop goes on
OnRefreshError == [pc |-> "sleeping", next_refresh |-> RefreshBackoff]

\* the sleep is over (or there was none): ensure_github_token, whose Err makes
\* the loop `continue` with next_refresh as it was, then the request is sent
RfAttempt ==
    /\ rf_pc = "sleeping"
    /\ rf_sleep_left = 0
    /\ rf' = IF rf_github_token
             THEN [rf EXCEPT !.pc = "in_flight", !.gap = rf_since_fail, !.since_fail = None]
             ELSE [rf EXCEPT !.sleep_left = RefreshWait(rf_next_refresh)]
    /\ UNCHANGED <<sa_vars, sr_vars, sc_vars, rl_vars, hd_vars, hk_vars, ob_vars, au_vars, rt_vars, td_vars, mr_vars, ec_vars, mt_vars, lk_vars>>

\* match get_copilot_token(..).await: Ok(response) sets next_refresh and the
\* cached token; Err sets next_refresh = 300; the loop then starts over
RfResponse ==
    /\ rf_pc = "in_flight"
    /\ \/ \E response \in CopilotResponses : rf' = Refreshed(rf, response)
       \/ rf' = [rf EXCEPT !.next_refresh = OnRefreshError.next_refresh,
                           !.sleep_left = RefreshWait(OnRefreshError.next_refresh),
                           !.pc = OnRefreshError.pc,
                           !.since_fail = Some(0)]
    /\ UNCHANGED <<sa_vars, sr_vars, sc_vars, rl_vars, hd_vars, hk_vars, ob_vars, au_vars, rt_vars, td_vars, mr_vars, ec_vars, mt_vars, lk_vars>>

\* TickSeconds pass; a sleep that is over returns before the clock moves on
RfTick ==
    /\ rf_pc # "none"
    /\ ~(rf_pc = "sleeping" /\ rf_sleep_left = 0)
    /\ rf' = [rf EXCEPT !.sleep_left = Monus(rf_sleep_left, TickSeconds),
                        !.ttl_left = Monus(rf_ttl_left, TickSeconds),
                        !.since_fail =
                            IF rf_since_fail.some
                            THEN Some(Min(rf_since_fail.v + TickSeconds, MaxMeasured))
                            ELSE None]
    /\ UNCHANGED <<sa_vars, sr_vars, sc_vars, rl_vars, hd_vars, hk_vars, ob_vars, au_vars, rt_vars, td_vars, mr_vars, ec_vars, mt_vars, lk_vars>>

\* no token is being fetched or refreshed
RfIdle == rf = [pc |-> "absent"]

(***************************************************************************)
(* auth_flow.rs ensure_github_token, token_store.rs, paths.rs ensure_paths,*)
(* services/github.rs poll_access_token, routes/auth.rs poll_token.        *)
(***************************************************************************)
\* characters of the token file's content
MaxFileLen == 3
\* requests one poll_access_token call sends
MaxPolls == 3

FileChars == {" ", "\n", "x"}
IsSpace(c) == c \in {" ", "\n"}
FileContents == UNION {[1..n -> FileChars] : n \in 0..MaxFileLen}

\* str::trim: the content without its leading and trailing whitespace
RECURSIVE TrimStart(_)
TrimStart(s) ==
    IF s # <<>> /\ IsSpace(Head(s)) THEN TrimStart(Tail(s)) ELSE s

RECURSIVE TrimEnd(_)
TrimEnd(s) ==
    IF s # <<>> /\ IsSpace(s[Len(s)]) THEN TrimEnd(SubSeq(s, 1, Len(s) - 1)) ELSE s

Trim(s) == TrimEnd(TrimStart(s))

Ok(v) == [ok |-> TRUE, v |-> v, err |-> ApiError("none", "")]
Err(e) == [ok |-> FALSE, v |-> <<>>, err |-> e]

\* ensure_paths: create_dir_all, then create the token file, empty, if it does
\* not exist; returns the file it leaves behind
ensure_paths(dir_ok, file) ==
    IF ~dir_ok
    THEN [ok |-> FALSE, file |-> file, err |-> ApiError("Internal", "Failed to create app dir")]
    ELSE IF file.exists
    THEN [ok |-> TRUE, file |-> file, err |-> ApiError("none", "")]
    ELSE IF ~file.writable
    THEN [ok |-> FALSE, file |-> file, err |-> ApiError("Internal", "Failed to create token file")]
    ELSE [ok |-> TRUE,
          file |-> [file EXCEPT !.exists = TRUE, !.readable = TRUE, !.content = <<>>],
          err |-> ApiError("none", "")]

\* mutant: a token file that cannot be read counts as holding no token
read_github_token_UnreadableIsNone(dir_ok, file) ==
    LET paths == ensure_paths(dir_ok, file) IN
    IF ~paths.ok THEN [ok |-> FALSE, token |-> None, file |-> paths.file, err |-> paths.err]
    ELSE IF ~paths.file.readable \/ Trim(paths.file.content) = <<>>
    THEN [ok |-> TRUE, token |-> None, file |-> paths.file, err |-> ApiError("none", "")]
    ELSE [ok |-> TRUE, token |-> Some(Trim(paths.file.content)), file |-> paths.file,
          err |-> ApiError("none", "")]

\* read_github_token: ensure_paths()?, read_to_string .map_err(Internal)?,
\* Ok(None) for a content that trims to nothing, else Ok(Some(trimmed))
read_github_token(dir_ok, file) ==
    LET paths == ensure_paths(dir_ok, file) IN
    IF ~paths.ok THEN [ok |-> FALSE, token |-> None, file |-> paths.file, err |-> paths.err]
    ELSE IF ~paths.file.readable
    THEN [ok |-> FALSE, token |-> None, file |-> paths.file,
          err |-> ApiError("Internal", "Failed to read token")]
    ELSE IF Trim(paths.file.content) = <<>>
    THEN [ok |-> TRUE, token |-> None, file |-> paths.file, err |-> ApiError("none", "")]
    ELSE [ok |-> TRUE, token |-> Some(Trim(paths.file.content)), file |-> paths.file,
          err |-> ApiError("none", "")]

\* write_github_token: ensure_paths()?, fs::write .map_err(Internal)?
write_github_token(dir_ok, file, token) ==
    LET paths == ensure_paths(dir_ok, file) IN
    IF ~paths.ok THEN [ok |-> FALSE, file |-> paths.file, err |-> paths.err]
    ELSE IF ~paths.file.writable
    THEN [ok |-> FALSE, file |-> paths.file, err |-> ApiError("Internal", "Failed to write token")]
    ELSE [ok |-> TRUE, file |-> [paths.file EXCEPT !.content = token],
          err |-> ApiError("none", "")]

\* ensure_github_token: the cached token; else the persisted one, which is
\* cached; else Unauthorized.  read is whether the token file was read.
ensure_github_token(cached, dir_ok, file) ==
    IF cached.some
    THEN [result |-> Ok(cached.v), cached |-> cached, file |-> file, read |-> FALSE]
    ELSE LET persisted == read_github_token(dir_ok, file) IN
         IF ~persisted.ok
         THEN [result |-> Err(persisted.err), cached |-> cached,
               file |-> persisted.file, read |-> TRUE]
         ELSE IF persisted.token.some
         THEN [result |-> Ok(persisted.token.v), cached |-> persisted.token,
               file |-> persisted.file, read |-> TRUE]
         ELSE [result |-> Err(ApiError("Unauthorized",
                                       "GitHub token not found. Run device auth first.")),
               cached |-> cached, file |-> persisted.file, read |-> TRUE]

\* the token files a run starts with
TokenFiles ==
    {[exists |-> FALSE, readable |-> FALSE, writable |-> w, content |-> <<>>] : w \in BOOLEAN}
    \cup [exists : {TRUE}, readable : BOOLEAN, writable : BOOLEAN, content : FileContents]

\* the access token GitHub hands out
AccessToken == <<"x">>

\* payload.interval of the requests
Intervals == {0, 5}

NoEnsure ==
    [called |-> FALSE, cached |-> None, dir_ok |-> FALSE,
     file |-> [exists |-> FALSE, readable |-> FALSE, writable |-> FALSE, content |-> <<>>],
     result |-> Ok(<<>>), read |-> FALSE, cached_after |-> None]

\* the state before any call
AuStart(github_token, dir_ok, file, interval) ==
    [github_token |-> github_token, dir_ok |-> dir_ok, file |-> file, ensure |-> NoEnsure,
     interval |-> interval, pc |-> "idle", polls |-> 0, sleep_ms |-> None,
     token |-> <<>>, result |-> Ok(<<>>)]

AuInit ==
    \E github_token \in {None, Some(AccessToken)}, dir_ok \in BOOLEAN,
       file \in TokenFiles, interval \in Intervals :
        au = AuStart(github_token, dir_ok, file, interval)

\* a call of ensure_github_token
AuEnsure ==
    /\ LET call == ensure_github_token(au_github_token, au_dir_ok, au_file) IN
       au' = [au EXCEPT !.ensure = [called |-> TRUE, cached |-> au_github_token,
                                    dir_ok |-> au_dir_ok, file |-> au_file,
                                    result |-> call.result, read |-> call.read,
                                    cached_after |-> call.cached],
                        !.github_token = call.cached,
                        !.file = call.file]
    /\ UNCHANGED <<sa_vars, sr_vars, sc_vars, rl_vars, hd_vars, hk_vars, ob_vars, rf_vars, rt_vars, td_vars, mr_vars, ec_vars, mt_vars, lk_vars>>

\* poll_token calls poll_access_token, whose loop sends its first request
AuPollStart ==
    /\ au_pc = "idle"
    /\ au' = [au EXCEPT !.pc = "requesting", !.polls = 1]
    /\ UNCHANGED <<sa_vars, sr_vars, sc_vars, rl_vars, hd_vars, hk_vars, ob_vars, rf_vars, rt_vars, td_vars, mr_vars, ec_vars, mt_vars, lk_vars>>

\* what becomes of one request to /login/oauth/access_token
PollAnswers == {"transport_error", "non_success", "invalid_body", "no_token", "token"}

\* .send().await.map_err(Upstream)?  /  if status.is_success() {
\* .json().await.map_err(Upstream)?; if let Some(token) = .. { return Ok } }
\* sleep_ms(sleep_duration)
PollStep(answer) ==
    CASE answer = "transport_error" -> "return_error"
      [] answer = "non_success" -> "sleep"
      [] answer = "invalid_body" -> "return_error"
      [] answer = "no_token" -> "sleep"
      [] answer = "token" -> "return_token"

PollError(answer) ==
    CASE answer = "transport_error" -> ApiError("Upstream", "Failed to poll access token")
      [] answer = "invalid_body" -> ApiError("Upstream", "Invalid access token response")

\* let sleep_duration = (device.interval + 1) * 1000;
sleep_duration(interval) == (interval + 1) * 1000

\* the request is answered
AuPollResponse ==
    /\ au_pc = "requesting"
    /\ \E answer \in PollAnswers :
          au' = CASE PollStep(answer) = "return_error" ->
                       [au EXCEPT !.pc = "returned", !.result = Err(PollError(answer))]
                  [] PollStep(answer) = "sleep" ->
                       [au EXCEPT !.pc = "sleeping",
                                  !.sleep_ms = Some(sleep_duration(au_interval))]
                  [] PollStep(answer) = "return_token" ->
                       [au EXCEPT !.pc = "writing", !.token = AccessToken]
    /\ UNCHANGED <<sa_vars, sr_vars, sc_vars, rl_vars, hd_vars, hk_vars, ob_vars, rf_vars, rt_vars, td_vars, mr_vars, ec_vars, mt_vars, lk_vars>>

\* the sleep is over and the loop sends the next request
AuPollAgain ==
    /\ au_pc = "sleeping"
    /\ au_polls < MaxPolls
    /\ au' = [au EXCEPT !.pc = "requesting", !.polls = au_polls + 1]
    /\ UNCHANGED <<sa_vars, sr_vars, sc_vars, rl_vars, hd_vars, hk_vars, ob_vars, rf_vars, rt_vars, td_vars, mr_vars, ec_vars, mt_vars, lk_vars>>

\* write_github_token(&token).await?; config.github_token = Some(token);
\* Ok(Json({"token": token}))
AuPollWrite ==
    /\ au_pc = "writing"
    /\ LET written == write_github_token(au_dir_ok, au_file, au_token) IN
       au' = IF written.ok
             THEN [au EXCEPT !.file = written.file, !.github_token = Some(au_token),
                             !.result = Ok(au_token), !.pc = "returned"]
             ELSE [au EXCEPT !.file = written.file, !.result = Err(written.err),
                             !.pc = "returned"]
    /\ UNCHANGED <<sa_vars, sr_vars, sc_vars, rl_vars, hd_vars, hk_vars, ob_vars, rf_vars, rt_vars, td_vars, mr_vars, ec_vars, mt_vars, lk_vars>>

\* no authentication call is being made
AuIdle == au = [pc |-> "absent"]

(***************************************************************************)
(* routes/chat_completions.rs and routes/messages.rs: resolve_model_alias, *)
(* requires_responses_api and the provider selection of handle;            *)
(* services/azure.rs: load_azure_config.                                   *)
(*                                                                         *)
(* A model id is the sequence of its parts, the separators "-", "." and    *)
(* ":" being parts of their own, so that starts_with and strip_prefix are  *)
(* tests and cuts of sequences.                                            *)
(***************************************************************************)
\* times resolve_model_alias is applied to a model id in a row
MaxResolves == 2

Gpt52Codex == <<"gpt", "-", "5", ".", "2", "-", "codex">>
Gpt51Codex == <<"gpt", "-", "5", ".", "1", "-", "codex">>
Gpt5Mini == <<"gpt", "-", "5", "-", "mini">>
Gpt51 == <<"gpt", "-", "5", ".", "1">>

\* str::starts_with
StartsWith(s, prefix) ==
    /\ Len(s) >= Len(prefix)
    /\ SubSeq(s, 1, Len(prefix)) = prefix

\* the rest of s after a prefix it starts with
StripPrefix(s, prefix) == SubSeq(s, Len(prefix) + 1, Len(s))

\* str::trim_start_matches: the prefix is removed as often as it occurs
RECURSIVE trim_start_matches(_, _)
trim_start_matches(s, prefix) ==
    IF StartsWith(s, prefix) THEN trim_start_matches(StripPrefix(s, prefix), prefix) ELSE s

AzurePrefix == <<"azure", ":">>
OpenaiPrefix == <<"openai", ":">>

\* chat_completions.rs: the `aliases` of resolve_model_alias, in order
ChatAliases ==
    <<<<<<"claude", "-", "opus", "-", "4", ".", "5">>, Gpt52Codex>>,
      <<<<"claude", "-", "opus", "-", "4">>, Gpt52Codex>>,
      <<<<"claude", "-", "4", "-", "opus">>, Gpt52Codex>>,
      <<<<"claude", "-", "3", "-", "opus">>, Gpt52Codex>>,
      <<<<"claude", "-", "3", "-", "opus", "-", "20240229">>, Gpt52Codex>>,
      <<<<"claude", "-", "sonnet", "-", "4">>, Gpt51Codex>>,
      <<<<"claude", "-", "4", "-", "sonnet">>, Gpt51Codex>>,
      <<<<"claude", "-", "3", ".", "5", "-", "sonnet">>, Gpt51Codex>>,
      <<<<"claude", "-", "3", "-", "5", "-", "sonnet", "-", "20241022">>, Gpt51Codex>>,
      <<<<"claude", "-", "3", "-", "sonnet">>, Gpt51Codex>>,
      <<<<"claude", "-", "3", "-", "sonnet", "-", "20240229">>, Gpt51Codex>>,
      <<<<"claude", "-", "haiku", "-", "3", ".", "5">>, Gpt5Mini>>,
      <<<<"claude", "-", "3", ".", "5", "-", "haiku">>, Gpt5Mini>>,
      <<<<"claude", "-", "3", "-", "haiku">>, Gpt5Mini>>,
      <<<<"claude", "-", "3", "-", "haiku", "-", "20240307">>, Gpt5Mini>>,
      <<<<"claude", "-", "2", ".", "1">>, Gpt51>>,
      <<<<"claude", "-", "2", ".", "0">>, Gpt51>>,
      <<<<"claude", "-", "instant", "-", "1", ".", "2">>, Gpt5Mini>>,
      <<<<"codex", "-", "5", ".", "2">>, Gpt52Codex>>,
      <<<<"codex", "-", "5", ".", "1">>, Gpt51Codex>>,
      <<<<"o3">>, Gpt52Codex>>,
      <<<<"o3", "-", "mini">>, Gpt5Mini>>,
      <<<<"o1">>, Gpt51>>,
      <<<<"o1", "-", "preview">>, Gpt51>>,
      <<<<"o1", "-", "mini">>, Gpt5Mini>>>>

\* messages.rs: the `aliases` of resolve_model_alias, in order
MessagesAliases ==
    <<<<<<"claude", "-", "opus", "-", "4", ".", "5">>, Gpt52Codex>>,
      <<<<"claude", "-", "opus", "-", "4">>, Gpt52Codex>>,
      <<<<"claude", "-", "4", "-", "opus">>, Gpt52Codex>>,
      <<<<"claude", "-", "3", "-", "opus">>, Gpt52Codex>>,
      <<<<"claude", "-", "3", "-", "opus", "-", "20240229">>, Gpt52Codex>>,
      <<<<"claude", "-", "sonnet", "-", "4">>, Gpt51Codex>>,
      <<<<"claude", "-", "4", "-", "sonnet">>, Gpt51Codex>>,
      <<<<"claude", "-", "3", ".", "5", "-", "sonnet">>, Gpt51Codex>>,
      <<<<"claude", "-", "3", "-", "5", "-", "sonnet", "-", "20241022">>, Gpt51Codex>>,
      <<<<"claude", "-", "3", "-", "sonnet">>, Gpt51Codex>>,
      <<<<"claude", "-", "3", "-", "sonnet", "-", "20240229">>, Gpt51Codex>>,
      <<<<"claude", "-", "haiku", "-", "3", ".", "5">>, Gpt5Mini>>,
      <<<<"claude", "-", "3", ".", "5", "-", "haiku">>, Gpt5Mini>>,
      <<<<"claude", "-", "3", "-", "haiku">>, Gpt5Mini>>,
      <<<<"claude", "-", "3", "-", "haiku", "-", "20240307">>, Gpt5Mini>>,
      <<<<"claude", "-", "2", ".", "1">>, Gpt51>>,
      <<<<"claude", "-", "2", ".", "0">>, Gpt51>>,
      <<<<"claude", "-", "instant", "-", "1", ".", "2">>, Gpt5Mini>>,
      <<<<"o3">>, Gpt52Codex>>,
      <<<<"o3", "-", "mini">>, Gpt5Mini>>,
      <<<<"o1">>, Gpt51>>,
      <<<<"o1", "-", "preview">>, Gpt51>>,
      <<<<"o1", "-", "mini">>, Gpt5Mini>>>>

\* an alias table in which the target of claude-2.1 is itself an alias
ChainedAliases ==
    <<<<<<"claude", "-", "2", ".", "1">>, <<"claude", "-", "3", "-", "opus">>>>>>
       \o ChatAliases

\* the body shared by both resolve_model_alias functions: the versioned-id
\* prefixes first, then the first row of the table whose key is the id, else
\* the id itself
ResolveWith(aliases, model) ==
    IF StartsWith(model, <<"claude", "-", "sonnet", "-", "4", "-">>) THEN Gpt51Codex
    ELSE IF StartsWith(model, <<"claude", "-", "opus", "-", "4", "-">>) \/ StartsWith(model, <<"claude", "-", "opus", "-", "4", ".", "5", "-">>)
    THEN Gpt52Codex
    ELSE IF StartsWith(model, <<"claude", "-", "haiku", "-">>) THEN Gpt5Mini
    ELSE IF \E k \in DOMAIN aliases : aliases[k][1] = model
    THEN LET k == CHOOSE k \in DOMAIN aliases :
                     /\ aliases[k][1] = model
                     /\ \A j \in 1..(k - 1) : aliases[j][1] # model
         IN aliases[k][2]
    ELSE model

\* mutant: resolve_model_alias over a table with a chained alias
resolve_model_alias_Chained(model) == ResolveWith(ChainedAliases, model)

\* chat_completions.rs resolve_model_alias
resolve_model_alias(model) == ResolveWith(ChatAliases, model)

\* messages.rs resolve_model_alias
messages_resolve_model_alias(model) == ResolveWith(MessagesAliases, model)

\* chat_completions.rs RESPONSES_API_MODELS
RESPONSES_API_MODELS ==
    {<<"gpt", "-", "5", ".", "2", "-", "codex">>,
     <<"gpt", "-", "5", ".", "1", "-", "codex">>,
     <<"gpt", "-", "5", ".", "1", "-", "codex", "-", "mini">>,
     <<"gpt", "-", "5", ".", "1", "-", "codex", "-", "max">>,
     <<"gpt", "-", "5", "-", "codex">>,
     <<"goldeneye">>}

Codex52 == <<"codex", "-", "5", ".", "2">>
Codex51 == <<"codex", "-", "5", ".", "1">>

\* chat_completions.rs requires_responses_api
requires_responses_api(model) ==
    model \in RESPONSES_API_MODELS \/ model \in {Codex52, Codex51}

\* messages.rs requires_responses_api
messages_requires_responses_api(model) ==
    model \in {<<"gpt", "-", "5", ".", "2", "-", "codex">>,
               <<"gpt", "-", "5", ".", "1", "-", "codex">>,
               <<"gpt", "-", "5", ".", "1", "-", "codex", "-", "mini">>,
               <<"gpt", "-", "5", ".", "1", "-", "codex", "-", "max">>,
               <<"gpt", "-", "5", "-", "codex">>,
               <<"goldeneye">>,
               Codex52, Codex51}

\* the model ids of the requests: the alias keys, their targets, the
\* Responses-only ids, versioned ids, ids no rule knows
BaseModels ==
    {<<"claude", "-", "opus", "-", "4", ".", "5">>,
     <<"claude", "-", "opus", "-", "4">>,
     <<"claude", "-", "4", "-", "opus">>,
     <<"claude", "-", "3", "-", "opus">>,
     <<"claude", "-", "3", "-", "opus", "-", "20240229">>,
     <<"claude", "-", "sonnet", "-", "4">>,
     <<"claude", "-", "4", "-", "sonnet">>,
     <<"claude", "-", "3", ".", "5", "-", "sonnet">>,
     <<"claude", "-", "3", "-", "5", "-", "sonnet", "-", "20241022">>,
     <<"claude", "-", "3", "-", "sonnet">>,
     <<"claude", "-", "3", "-", "sonnet", "-", "20240229">>,
     <<"claude", "-", "haiku", "-", "3", ".", "5">>,
     <<"claude", "-", "3", ".", "5", "-", "haiku">>,
     <<"claude", "-", "3", "-", "haiku">>,
     <<"claude", "-", "3", "-", "haiku", "-", "20240307">>,
     <<"claude", "-", "2", ".", "1">>,
     <<"claude", "-", "2", ".", "0">>,
     <<"claude", "-", "instant", "-", "1", ".", "2">>,
     <<"codex", "-", "5", ".", "2">>,
     <<"codex", "-", "5", ".", "1">>,
     <<"o3">>,
     <<"o3", "-", "mini">>,
     <<"o1">>,
     <<"o1", "-", "preview">>,
     <<"o1", "-", "mini">>,
     <<"gpt", "-", "5", ".", "2", "-", "codex">>,
     <<"gpt", "-", "5", ".", "1", "-", "codex">>,
     <<"gpt", "-", "5", "-", "mini">>,
     <<"gpt", "-", "5", ".", "1">>,
     <<"gpt", "-", "5", ".", "1", "-", "codex", "-", "mini">>,
     <<"gpt", "-", "5", ".", "1", "-", "codex", "-", "max">>,
     <<"gpt", "-", "5", "-", "codex">>,
     <<"goldeneye">>,
     <<"claude", "-", "sonnet", "-", "4", "-", "20250514">>,
     <<"claude", "-", "opus", "-", "4", "-", "1">>,
     <<"claude", "-", "opus", "-", "4", ".", "5", "-", "20251101">>,
     <<"claude", "-", "haiku", "-", "4", "-", "5">>,
     <<"claude", "-", "sonnet", "-", "4", ".", "5">>,
     <<"gpt", "-", "4o">>}

\* a base id, or one behind `azure:`, `openai:` or a doubled `openai:`
Models ==
    BaseModels
    \cup {AzurePrefix \o m : m \in BaseModels}
    \cup {OpenaiPrefix \o m : m \in BaseModels}
    \cup {OpenaiPrefix \o OpenaiPrefix \o m : m \in {Gpt51Codex, <<"gpt", "-", "4o">>}}

\* std::env: COPILOT_PROVIDER; AZURE_OPENAI_ENDPOINT and AZURE_OPENAI_KEY both
\* set; AZURE_OPENAI_DEPLOYMENT; ANTHROPIC_API_KEY set
Environments ==
    [provider : {None} \cup {Some(p) : p \in {"copilot", "azure", "openai", "anthropic"}},
     azure_endpoint_key : BOOLEAN,
     azure_deployment : {None, Some(<<"prod">>)},
     anthropic_key : BOOLEAN]

\* std::env::var("COPILOT_PROVIDER").unwrap_or_else(|_| "copilot".to_string())
Provider(env) == IF env.provider.some THEN env.provider.v ELSE "copilot"

\* azure.rs load_azure_config: None without endpoint or key; the deployment
\* is the model behind `azure:`, else AZURE_OPENAI_DEPLOYMENT, else None
load_azure_config(env, model) ==
    IF ~env.azure_endpoint_key THEN None
    ELSE IF StartsWith(model, AzurePrefix)
    THEN Some([deployment |-> StripPrefix(model, AzurePrefix)])
    ELSE IF env.azure_deployment.some
    THEN Some([deployment |-> env.azure_deployment.v])
    ELSE None

\* where a request ends: `to` is the upstream endpoint ("rejected": none),
\* model the payload's model as sent, deployment the Azure deployment
Sent(to, model, deployment) == [to |-> to, model |-> model, deployment |-> deployment]

NotSent == Sent("none", <<>>, <<>>)

\* chat_completions.rs handle, lines 99-143: Azure when the provider or the
\* prefix asks for it and its configuration loads; else OpenAI when the
\* provider or the prefix asks for it; else Copilot
chat_route(env, model) ==
    LET cfg == load_azure_config(env, model)
        openai_model == trim_start_matches(model, OpenaiPrefix)
        resolved == resolve_model_alias(model) IN
    IF (Provider(env) = "azure" \/ StartsWith(model, AzurePrefix)) /\ cfg.some
    THEN Sent("azure_chat",
              IF StartsWith(model, AzurePrefix) THEN cfg.v.deployment ELSE model,
              cfg.v.deployment)
    ELSE IF Provider(env) = "openai" \/ StartsWith(model, OpenaiPrefix)
    THEN IF requires_responses_api(openai_model)
         THEN Sent("rejected", openai_model, <<>>)
         ELSE Sent("openai_chat", openai_model, <<>>)
    ELSE IF requires_responses_api(resolved)
    THEN Sent("copilot_responses", resolved, <<>>)
    ELSE Sent("copilot_chat", resolved, <<>>)

\* payload.model.to_lowercase().starts_with("claude"); the ids of Models are
\* in lower case and none has a first part that merely begins with "claude"
StartsWithClaude(model) == model # <<>> /\ Head(model) = "claude"

\* messages.rs handle, lines 104-144: the Anthropic Messages API when the
\* provider is anthropic or the model is a claude id and ANTHROPIC_API_KEY is
\* set; else Copilot, by the Responses API or chat-completions
messages_route(env, model) ==
    LET resolved == messages_resolve_model_alias(model) IN
    IF Provider(env) = "anthropic" \/ (StartsWithClaude(model) /\ env.anthropic_key)
    THEN Sent("anthropic_messages", model, <<>>)
    ELSE IF messages_requires_responses_api(resolved)
    THEN Sent("copilot_responses", resolved, <<>>)
    ELSE Sent("copilot_chat", resolved, <<>>)

\* a request as it arrives
RtStart(env, endpoint, model) ==
    [env |-> env, endpoint |-> endpoint, model |-> model, pc |-> "received",
     sent |-> NotSent, chat_chain |-> <<model>>, msg_chain |-> <<model>>]

RtInit ==
    \E env \in Environments, endpoint \in {"chat", "messages"}, model \in Models :
        rt = RtStart(env, endpoint, model)

\* chat_completions::handle chooses the provider and sends the request
RtChatCompletions ==
    /\ rt_pc = "received"
    /\ rt_endpoint = "chat"
    /\ rt' = [rt EXCEPT !.sent = chat_route(rt_env, rt_model), !.pc = "routed"]
    /\ UNCHANGED <<sa_vars, sr_vars, sc_vars, rl_vars, hd_vars, hk_vars, ob_vars, rf_vars, au_vars, td_vars, mr_vars, ec_vars, mt_vars, lk_vars>>

\* messages::handle chooses the provider and sends the request
RtMessages ==
    /\ rt_pc = "received"
    /\ rt_endpoint = "messages"
    /\ rt' = [rt EXCEPT !.sent = messages_route(rt_env, rt_model), !.pc = "routed"]
    /\ UNCHANGED <<sa_vars, sr_vars, sc_vars, rl_vars, hd_vars, hk_vars, ob_vars, rf_vars, au_vars, td_vars, mr_vars, ec_vars, mt_vars, lk_vars>>

\* chat_completions::resolve_model_alias applied to its last result
RtResolveChat ==
    /\ Len(rt_chat_chain) <= MaxResolves
    /\ rt' = [rt EXCEPT !.chat_chain =
                 Append(rt_chat_chain, resolve_model_alias(rt_chat_chain[Len(rt_chat_chain)]))]
    /\ UNCHANGED <<sa_vars, sr_vars, sc_vars, rl_vars, hd_vars, hk_vars, ob_vars, rf_vars, au_vars, td_vars, mr_vars, ec_vars, mt_vars, lk_vars>>

\* messages::resolve_model_alias applied to its last result
RtResolveMessages ==
    /\ Len(rt_msg_chain) <= MaxResolves
    /\ rt' = [rt EXCEPT !.msg_chain =
                 Append(rt_msg_chain, messages_resolve_model_alias(rt_msg_chain[Len(rt_msg_chain)]))]
    /\ UNCHANGED <<sa_vars, sr_vars, sc_vars, rl_vars, hd_vars, hk_vars, ob_vars, rf_vars, au_vars, td_vars, mr_vars, ec_vars, mt_vars, lk_vars>>

\* no request is being routed
RtIdle == rt = [pc |-> "absent"]

(***************************************************************************)
(* routes/messages.rs: translate_chunk_to_anthropic_events called on one   *)
(* chunk after another, with the chunk, the state before and the events    *)
(* of the last call kept.                                                  *)
(***************************************************************************)
TdInit ==
    td = [st |-> AnthropicStreamStateDefault, n |-> 0, chunk |-> NoChoiceChunk,
          before |-> AnthropicStreamStateDefault, ev |-> <<>>]

\* let events = translate_chunk_to_anthropic_events(&chunk, &mut state)
TdTranslate ==
    /\ td_n < MaxPayloads
    /\ \E chunk \in ChoiceChunks \cup {NoChoiceChunk} :
          LET r == translate_chunk_to_anthropic_events(chunk, td_st) IN
          td' = [st |-> r.st, n |-> td_n + 1, chunk |-> chunk,
                 before |-> td_st, ev |-> r.ev]
    /\ UNCHANGED <<sa_vars, sr_vars, sc_vars, rl_vars, hd_vars, hk_vars, ob_vars, rf_vars, au_vars, rt_vars, mr_vars, ec_vars, mt_vars, lk_vars>>

\* no chunk is being translated
TdIdle == td = [n |-> 0]

(***************************************************************************)
(* routes/responses.rs: messages_to_responses_input.  A string is the      *)
(* sequence of its pieces, so that join("\n") is a real operation.         *)
(***************************************************************************)
\* messages of one call
MaxMessages == 3

\* msg.content: a JSON string, an array of parts (the text of each text
\* part, other parts left out of `texts` but counted), null, or an object
StringContent(s) == [kind |-> "string", s |-> s, texts |-> <<>>, others |-> 0]
ArrayContent(texts, others) ==
    [kind |-> "array", s |-> <<>>, texts |-> texts, others |-> others]
NullContent == [kind |-> "null", s |-> <<>>, texts |-> <<>>, others |-> 0]
ObjectContent == [kind |-> "object", s |-> <<>>, texts |-> <<>>, others |-> 0]

\* services/copilot.rs ToolCall: id, function.name, function.arguments
ToolCall(id, name, arguments) == [id |-> id, name |-> name, arguments |-> arguments]

ToolCall1 == ToolCall(<<"call-1">>, <<"doit">>, <<"{\"a\":1}">>)
ToolCall2 == ToolCall(<<"call-2">>, <<"undo">>, <<"{}">>)

\* services/copilot.rs Message
Message(role, content, tool_calls, tool_call_id) ==
    [role |-> role, content |-> content, tool_calls |-> tool_calls,
     tool_call_id |-> tool_call_id]

\* the messages of the requests
InputMessages ==
    {Message("system", StringContent(<<"one">>), None, None),
     Message("developer", StringContent(<<"dev">>), None, None)}
    \cup {Message("user", c, None, None) :
            c \in {StringContent(<<"hello">>),
                   ArrayContent(<<<<"wor">>, <<"ld">>>>, 1),
                   ArrayContent(<<>>, 1)}}
    \cup {Message("assistant", c, tcs, None) :
            c \in {StringContent(<<"assistant">>), NullContent,
                   ArrayContent(<<<<"thought">>>>, 0)},
            tcs \in {None, Some(<<ToolCall1>>), Some(<<ToolCall1, ToolCall2>>)}}
    \cup {Message("tool", c, id, None) :
            c \in {StringContent(<<"done">>), ObjectContent},
            id \in {None, Some(<<"call-1">>)}}

\* [String]::join(sep)
RECURSIVE Join(_, _)
Join(parts, sep) ==
    IF parts = <<>> THEN <<>>
    ELSE IF Len(parts) = 1 THEN parts[1]
    ELSE parts[1] \o sep \o Join(Tail(parts), sep)

\* serde_json::Value::to_string of the object the model has
ObjectJson == <<"{\"ok\":true}">>

\* ResponsesInputItem: the struct's eight fields, every one serialised
ResponsesInputItem(type, role, content, id, call_id, name, output) ==
    [type |-> type, role |-> role, content |-> content, text |-> None,
     id |-> id, call_id |-> call_id, name |-> name, output |-> output]

\* the `message` item of a user or assistant message
MessageItem(role, text) ==
    ResponsesInputItem("message", Some(role), Some(text), None, None, None, None)

\* the arm "user": a string content, or the joined text parts of an array
\* content when there are any
UserItems(msg) ==
    IF msg.content.kind = "string" THEN <<MessageItem("user", msg.content.s)>>
    ELSE IF msg.content.kind = "array" /\ msg.content.texts # <<>>
    THEN <<MessageItem("user", Join(msg.content.texts, <<"\n">>))>>
    ELSE <<>>

\* the item pushed for a tool call: id and call_id are tc.id, and output is
\* tc.function.arguments
FunctionCallItem(tc) ==
    ResponsesInputItem("function_call", None, None, Some(tc.id), Some(tc.id),
                       Some(tc.name), Some(tc.arguments))

\* the arm "assistant": the message item of a string content, then one
\* function_call item for each tool call
AssistantItems(msg) ==
    (IF msg.content.kind = "string"
     THEN <<MessageItem("assistant", msg.content.s)>> ELSE <<>>)
    \o (IF msg.tool_calls.some
        THEN [k \in DOMAIN msg.tool_calls.v |-> FunctionCallItem(msg.tool_calls.v[k])]
        ELSE <<>>)

\* the arm "tool": output is the string content, or the JSON text of any
\* other content
ToolItems(msg) ==
    <<ResponsesInputItem("function_call_output", None, None, None, msg.tool_call_id, None,
                         Some(IF msg.content.kind = "string" THEN msg.content.s
                              ELSE ObjectJson))>>

\* the body of `for msg in messages`: the items one message pushes
ItemsOf(msg) ==
    CASE msg.role = "system" -> <<>>
      [] msg.role = "user" -> UserItems(msg)
      [] msg.role = "assistant" -> AssistantItems(msg)
      [] msg.role = "tool" -> ToolItems(msg)
      [] OTHER -> <<>>

RECURSIVE messages_to_responses_input(_)
messages_to_responses_input(messages) ==
    IF messages = <<>> THEN <<>>
    ELSE ItemsOf(Head(messages)) \o messages_to_responses_input(Tail(messages))

MrInit == mr = [messages |-> <<>>, produced |-> <<>>, input |-> <<>>]

\* one iteration of `for msg in messages`
MrMessage ==
    /\ Len(mr_messages) < MaxMessages
    /\ \E msg \in InputMessages :
          mr' = [messages |-> Append(mr_messages, msg),
                 produced |-> Append(mr_produced, ItemsOf(msg)),
                 input |-> messages_to_responses_input(Append(mr_messages, msg))]
    /\ UNCHANGED <<sa_vars, sr_vars, sc_vars, rl_vars, hd_vars, hk_vars, ob_vars, rf_vars, au_vars, rt_vars, td_vars, ec_vars, mt_vars, lk_vars>>

\* no conversion is being made
MrIdle == mr = [input |-> <<>>]

(***************************************************************************)
(* auth_flow.rs ensure_copilot_token called by the prewarm task, by the    *)
(* claude-code helper and by request handlers (main.rs).                   *)
(***************************************************************************)
\* request handlers that call ensure_copilot_token
MaxCallers == 2

\* main.rs: the prewarm task is spawned, run_claude_code_helper is awaited
\* when --claude-code is given, then the server accepts requests
Prewarm == <<"prewarm", 0>>
Helper == <<"helper", 0>>
Callers == {Prewarm, Helper} \cup {<<"request", k>> : k \in 1..MaxCallers}

NoCall(pc) == [pc |-> pc, cached |-> FALSE, upstream |-> FALSE, spawned |-> FALSE]

EcInit ==
    \E claude_code \in BOOLEAN :
        ec = [copilot_token |-> FALSE, tasks |-> 0,
              call |-> [c \in Callers |->
                          IF c = Helper /\ ~claude_code THEN NoCall("absent")
                          ELSE NoCall("idle")]]

\* the helper has returned (or there is none) when axum::serve starts
Serving == ec_call[Helper].pc \in {"absent", "done"}

\* ensure_copilot_token up to its first suspension: the cached token is
\* returned if there is one; else ensure_github_token, the snapshot, and the
\* request of get_copilot_token is sent
EcCall(c) ==
    /\ ec_call[c].pc = "idle"
    /\ c \notin {Prewarm, Helper} => Serving
    /\ ec' = IF ec_copilot_token
             THEN [ec EXCEPT !.call[c].pc = "done", !.call[c].cached = TRUE]
             ELSE [ec EXCEPT !.call[c].pc = "requesting", !.call[c].upstream = TRUE]
    /\ UNCHANGED <<sa_vars, sr_vars, sc_vars, rl_vars, hd_vars, hk_vars, ob_vars, rf_vars, au_vars, rt_vars, td_vars, mr_vars, mt_vars, lk_vars>>

\* get_copilot_token(..).await?: on Ok the token is cached and
\* schedule_copilot_refresh spawns a task; on Err the call returns
EcResponse(c) ==
    /\ ec_call[c].pc = "requesting"
    /\ \E ok \in BOOLEAN :
          ec' = IF ok
                THEN [ec EXCEPT !.copilot_token = TRUE, !.tasks = ec_tasks + 1,
                                !.call[c].pc = "done", !.call[c].spawned = TRUE]
                ELSE [ec EXCEPT !.call[c].pc = "done"]
    /\ UNCHANGED <<sa_vars, sr_vars, sc_vars, rl_vars, hd_vars, hk_vars, ob_vars, rf_vars, au_vars, rt_vars, td_vars, mr_vars, mt_vars, lk_vars>>

\* no call of ensure_copilot_token is being made
EcIdle == ec = [tasks |-> 0]

(***************************************************************************)
(* routes/chat_completions.rs: the Copilot branch of handle, lines 136-173 *)
(* and handle_responses_api.                                               *)
(***************************************************************************)
\* the catalog GET /models answers: for each id it lists,
\* capabilities.limits.max_output_tokens (an Option)
Catalog ==
    [id \in {Gpt52Codex, Gpt51Codex, Gpt5Mini, Gpt51, <<"gpt", "-", "4o">>} |->
        CASE id = Gpt52Codex -> Some(128)
          [] id = Gpt51Codex -> Some(64)
          [] id = Gpt5Mini -> Some(32)
          [] id = Gpt51 -> None
          [] OTHER -> Some(16)]

\* payload.max_tokens of the requests
MaxTokensValues == {None, Some(8)}

\* the request the Copilot branch sends
UpstreamRequest(api, model, max_tokens) ==
    [api |-> api, model |-> model, max_tokens |-> max_tokens]

NoRequest == UpstreamRequest("none", <<>>, None)

\* if payload.max_tokens.is_none() { if let Some(models) = &config.models {
\* if let Some(model) = models.data.iter().find(|m| m.id == payload.model) {
\* payload.max_tokens = model.capabilities.limits.max_output_tokens } } }
fill_max_tokens(models, model, max_tokens) ==
    IF max_tokens.some THEN max_tokens
    ELSE IF models.some /\ model \in DOMAIN models.v THEN models.v[model]
    ELSE max_tokens

\* handle, lines 136-173: the alias is resolved; a model that requires the
\* Responses API goes to handle_responses_api, whose payload has
\* max_output_tokens: payload.max_tokens; any other model has its max_tokens
\* filled in and goes to create_chat_completions
copilot_request(models, model, max_tokens) ==
    LET resolved == resolve_model_alias(model) IN
    IF requires_responses_api(resolved)
    THEN UpstreamRequest("responses", resolved, max_tokens)
    ELSE UpstreamRequest("chat", resolved, fill_max_tokens(models, resolved, max_tokens))

MtInit ==
    \E model \in BaseModels, max_tokens \in MaxTokensValues,
       models \in {None, Some(Catalog)} :
        mt = [pc |-> "received", model |-> model, max_tokens |-> max_tokens,
              models |-> models, sent |-> NoRequest]

\* the handler reaches the Copilot branch and sends the request
MtSend ==
    /\ mt_pc = "received"
    /\ mt' = [mt EXCEPT !.pc = "sent",
                        !.sent = copilot_request(mt_models, mt_model, mt_max_tokens)]
    /\ UNCHANGED <<sa_vars, sr_vars, sc_vars, rl_vars, hd_vars, hk_vars, ob_vars, rf_vars, au_vars, rt_vars, td_vars, mr_vars, ec_vars, lk_vars>>

\* no request is in the Copilot branch
MtIdle == mt = [pc |-> "absent"]

(***************************************************************************)
(* The functions that write AppState.config, as the sequences of lock      *)
(* operations and I/O awaits on each of their paths: "read" and "write"    *)
(* take a guard, "unlock" drops the guard the task holds, "io" is an       *)
(* outbound HTTP call, a sleep, a file operation or a prompt.              *)
(***************************************************************************)
\* tasks that run at the same time
MaxTasks == 2

LockTasks == 1..MaxTasks

\* a guard taken in a temporary or a block and dropped before the next await
Read == <<"read", "unlock">>
Write == <<"write", "unlock">>
Io == <<"io">>

\* mutant: the guard is not dropped before the sleep
check_rate_limit_paths_NoDrop ==
    {Write, <<"write", "io", "unlock">> \o Write}

\* rate_limit.rs check_rate_limit: the guard of line 4 lives to the return,
\* or to drop(config) before the sleep, after which line 24 takes a new one
check_rate_limit_paths ==
    {Write, Write \o Io \o Write}

\* auth_flow.rs ensure_github_token: cached; read from the file and cached;
\* the file read fails or holds no token
ensure_github_token_paths ==
    {Read, Read \o Io \o Write, Read \o Io}

\* the paths of ensure_github_token that return a token
github_token_ok_paths == {Read, Read \o Io \o Write}

\* auth_flow.rs ensure_copilot_token: cached; else ensure_github_token, the
\* snapshot, get_copilot_token, and on Ok the write of the token, the read
\* of show_token and get_github_user
ensure_copilot_token_paths ==
    {Read}
    \cup {Read \o g \o Read \o Io : g \in github_token_ok_paths}
    \cup {Read \o g \o Read \o Io \o Write \o Read \o Io : g \in github_token_ok_paths}

\* auth_flow.rs schedule_copilot_refresh, one iteration of the loop: the
\* sleep, ensure_github_token, the snapshot, get_copilot_token, and on Ok
\* the write of the token
refresh_paths ==
    {Io \o Read \o Read \o Io, Io \o Read \o Read \o Io \o Write}

\* routes/models.rs list, after ensure_copilot_token found the cached token:
\* the catalog is cached; or the read guard is dropped, the snapshot is
\* taken, get_models is awaited and the catalog is written
models_list_paths ==
    {Read \o Read, Read \o Read \o Read \o Io \o Write}

\* routes/auth.rs poll_token: poll_access_token, write_github_token, then
\* the write of config.github_token
poll_token_paths == {Io \o Io \o Write}

LockPaths ==
    check_rate_limit_paths \cup ensure_github_token_paths
    \cup ensure_copilot_token_paths \cup refresh_paths
    \cup models_list_paths \cup poll_token_paths

\* the operation the task executes next, "end" when it has returned
NextOp(t) ==
    IF lk_pc[t] < Len(lk_path[t]) THEN lk_path[t][lk_pc[t] + 1] ELSE "end"

\* tokio::sync::RwLock: a write guard excludes every other guard, a read
\* guard excludes the write guard
CanStep(t) ==
    CASE NextOp(t) = "write" -> lk_writer = 0 /\ lk_readers = {}
      [] NextOp(t) = "read" -> lk_writer = 0
      [] NextOp(t) = "end" -> FALSE
      [] OTHER -> TRUE

LkInit ==
    \E path \in [LockTasks -> LockPaths] :
        lk = [path |-> path,
              pc |-> [t \in LockTasks |-> 0],
              in_io |-> [t \in LockTasks |-> FALSE],
              writer |-> 0,
              readers |-> {}]

\* the task executes its next operation: it takes or drops a guard, is
\* suspended in an I/O await, or is resumed from it
LkStep(t) ==
    /\ CanStep(t)
    /\ lk' =
         CASE NextOp(t) = "write" ->
                [lk EXCEPT !.writer = t, !.pc[t] = @ + 1]
           [] NextOp(t) = "read" ->
                [lk EXCEPT !.readers = @ \cup {t}, !.pc[t] = @ + 1]
           [] NextOp(t) = "unlock" ->
                [lk EXCEPT !.writer = IF @ = t THEN 0 ELSE @,
                           !.readers = @ \ {t},
                           !.pc[t] = @ + 1]
           [] NextOp(t) = "io" ->
                IF lk_in_io[t]
                THEN [lk EXCEPT !.in_io[t] = FALSE, !.pc[t] = @ + 1]
                ELSE [lk EXCEPT !.in_io[t] = TRUE]
    /\ UNCHANGED <<sa_vars, sr_vars, sc_vars, rl_vars, hd_vars, hk_vars, ob_vars, rf_vars, au_vars, rt_vars, td_vars, mr_vars, ec_vars, mt_vars>>

\* no task uses the lock
LkIdle == lk = [writer |-> 0]

InitAnthropic == SaInit /\ SrIdle /\ ScIdle /\ RlIdle /\ HdIdle /\ HkIdle /\ ObIdle /\ RfIdle /\ AuIdle /\ RtIdle /\ TdIdle /\ MrIdle /\ EcIdle /\ MtIdle /\ LkIdle
NextAnthropic == SaPayload \/ SaEndOfStream
SpecAnthropic == InitAnthropic /\ [][NextAnthropic]_vars

InitResponses == SaIdle /\ SrInit /\ ScIdle /\ RlIdle /\ HdIdle /\ HkIdle /\ ObIdle /\ RfIdle /\ AuIdle /\ RtIdle /\ TdIdle /\ MrIdle /\ EcIdle /\ MtIdle /\ LkIdle
NextResponses == SrStart \/ SrPayload \/ SrEndOfStream
SpecResponses == InitResponses /\ [][NextResponses]_vars

InitChat == SaIdle /\ SrIdle /\ ScInit /\ RlIdle /\ HdIdle /\ HkIdle /\ ObIdle /\ RfIdle /\ AuIdle /\ RtIdle /\ TdIdle /\ MrIdle /\ EcIdle /\ MtIdle /\ LkIdle
NextChat == ScDataLine \/ ScEndOfStream
SpecChat == InitChat /\ [][NextChat]_vars

InitRate == SaIdle /\ SrIdle /\ ScIdle /\ RlInit /\ HdIdle /\ HkIdle /\ ObIdle /\ RfIdle /\ AuIdle /\ RtIdle /\ TdIdle /\ MrIdle /\ EcIdle /\ MtIdle /\ LkIdle
NextRate == (\E r \in Requests : RlCall(r) \/ RlWake(r)) \/ RlTick
SpecRate == InitRate /\ [][NextRate]_vars

InitHandler == SaIdle /\ SrIdle /\ ScIdle /\ RlInit /\ HdInit /\ HkIdle /\ ObIdle /\ RfIdle /\ AuIdle /\ RtIdle /\ TdIdle /\ MrIdle /\ EcIdle /\ MtIdle /\ LkIdle
NextHandler ==
    \/ \E r \in Handlers :
          \/ HdPreToolUse(r) \/ HdApproval(r) \/ HdPromptAnswer(r)
          \/ HdRateLimit(r) \/ HdRateWake(r)
          \/ HdProvider(r) \/ HdPostToolUse(r)
    \/ HdTick
SpecHandler == InitHandler /\ [][NextHandler]_vars

InitHooks == SaIdle /\ SrIdle /\ ScIdle /\ RlIdle /\ HdIdle /\ HkInit /\ ObIdle /\ RfIdle /\ AuIdle /\ RtIdle /\ TdIdle /\ MrIdle /\ EcIdle /\ MtIdle /\ LkIdle
NextHooks == HkVisit \/ HkReturn \/ HkHookCommand
SpecHooks == InitHooks /\ [][NextHooks]_vars

InitObserver == SaIdle /\ SrIdle /\ ScIdle /\ RlIdle /\ HdIdle /\ HkIdle /\ ObInit /\ RfIdle /\ AuIdle /\ RtIdle /\ TdIdle /\ MrIdle /\ EcIdle /\ MtIdle /\ LkIdle
NextObserver == ObEmit \/ ObOpen \/ ObRecv \/ ObWrite
SpecObserver == InitObserver /\ [][NextObserver]_vars

InitRefresh == SaIdle /\ SrIdle /\ ScIdle /\ RlIdle /\ HdIdle /\ HkIdle /\ ObIdle /\ RfInit /\ AuIdle /\ RtIdle /\ TdIdle /\ MrIdle /\ EcIdle /\ MtIdle /\ LkIdle
NextRefresh == RfEnsureCall \/ RfEnsureResponse \/ RfAttempt \/ RfResponse \/ RfTick
SpecRefresh == InitRefresh /\ [][NextRefresh]_vars

\* time passes, the timer ends every sleep, and every request is answered
\* (with a token or with an error)
SpecRefreshLive ==
    /\ SpecRefresh
    /\ WF_vars(RfTick)
    /\ WF_vars(RfAttempt)
    /\ WF_vars(RfResponse)

InitAuth == SaIdle /\ SrIdle /\ ScIdle /\ RlIdle /\ HdIdle /\ HkIdle /\ ObIdle /\ RfIdle /\ AuInit /\ RtIdle /\ TdIdle /\ MrIdle /\ EcIdle /\ MtIdle /\ LkIdle
NextAuth == AuEnsure \/ AuPollStart \/ AuPollResponse \/ AuPollAgain \/ AuPollWrite
SpecAuth == InitAuth /\ [][NextAuth]_vars

InitRouting == SaIdle /\ SrIdle /\ ScIdle /\ RlIdle /\ HdIdle /\ HkIdle /\ ObIdle /\ RfIdle /\ AuIdle /\ RtInit /\ TdIdle /\ MrIdle /\ EcIdle /\ MtIdle /\ LkIdle
NextRouting == RtChatCompletions \/ RtMessages \/ RtResolveChat \/ RtResolveMessages
SpecRouting == InitRouting /\ [][NextRouting]_vars

InitTranslate == SaIdle /\ SrIdle /\ ScIdle /\ RlIdle /\ HdIdle /\ HkIdle /\ ObIdle /\ RfIdle /\ AuIdle /\ RtIdle /\ TdInit /\ MrIdle /\ EcIdle /\ MtIdle /\ LkIdle
NextTranslate == TdTranslate
SpecTranslate == InitTranslate /\ [][NextTranslate]_vars

InitResponsesInput == SaIdle /\ SrIdle /\ ScIdle /\ RlIdle /\ HdIdle /\ HkIdle /\ ObIdle /\ RfIdle /\ AuIdle /\ RtIdle /\ TdIdle /\ MrInit /\ EcIdle /\ MtIdle /\ LkIdle
NextResponsesInput == MrMessage
SpecResponsesInput == InitResponsesInput /\ [][NextResponsesInput]_vars

InitEnsure == SaIdle /\ SrIdle /\ ScIdle /\ RlIdle /\ HdIdle /\ HkIdle /\ ObIdle /\ RfIdle /\ AuIdle /\ RtIdle /\ TdIdle /\ MrIdle /\ EcInit /\ MtIdle /\ LkIdle
NextEnsure == \E c \in Callers : EcCall(c) \/ EcResponse(c)
SpecEnsure == InitEnsure /\ [][NextEnsure]_vars

InitMaxTokens == SaIdle /\ SrIdle /\ ScIdle /\ RlIdle /\ HdIdle /\ HkIdle /\ ObIdle /\ RfIdle /\ AuIdle /\ RtIdle /\ TdIdle /\ MrIdle /\ EcIdle /\ MtInit /\ LkIdle
NextMaxTokens == MtSend
SpecMaxTokens == InitMaxTokens /\ [][NextMaxTokens]_vars

InitLock == SaIdle /\ SrIdle /\ ScIdle /\ RlIdle /\ HdIdle /\ HkIdle /\ ObIdle /\ RfIdle /\ AuIdle /\ RtIdle /\ TdIdle /\ MrIdle /\ EcIdle /\ MtIdle /\ LkInit
NextLock == \E t \in LockTasks : LkStep(t)
SpecLock == InitLock /\ [][NextLock]_vars

\* time passes, and a sleep whose deadline has passed returns: tokio's timer
\* wakes the sleeper and its RwLock is fair, so the write lock is obtained
SpecRateLive ==
    /\ SpecRate
    /\ WF_vars(RlTick)
    /\ \A r \in Requests : WF_vars(RlWake(r))

(***************************************************************************)
(* Reading an emitted event sequence.                                      *)
(***************************************************************************)
IsStart(e) == e.type = "content_block_start"
IsDelta(e) == e.type = "content_block_delta"
IsStop(e) == e.type = "content_block_stop"

\* positions of s holding an event of type t
Positions(s, t) == {k \in DOMAIN s : s[k].type = t}

\* a content_block_stop on index i at one of the positions lo..hi of s
StopBetween(s, i, lo, hi) ==
    \E m \in lo..hi : IsStop(s[m]) /\ s[m].index = i

\* block i is open just before position k of s: it was started and not stopped since
BlockOpenBefore(s, i, k) ==
    \E j \in 1..(k - 1) :
        /\ IsStart(s[j]) /\ s[j].index = i
        /\ ~StopBetween(s, i, j + 1, k - 1)

IsPrefix(s, t) == Len(s) <= Len(t) /\ SubSeq(t, 1, Len(s)) = s

(***************************************************************************)
(* Claims about the chat-completions -> Anthropic stream adapter.          *)
(***************************************************************************)

\* C1: every content_block_delta emitted on index i (text_delta or
\* input_json_delta) is emitted while block i is open: after the
\* content_block_start for i and before the content_block_stop for i.
C1_DeltaOnlyWhileBlockOpen ==
    \A k \in DOMAIN sa_out :
        IsDelta(sa_out[k]) => BlockOpenBefore(sa_out, sa_out[k].index, k)

\* C2: no event is emitted after message_stop, message_delta and message_stop
\* occur at most once, and a stream that has ended after emitting anything
\* ends with exactly one message_delta immediately followed by exactly one
\* message_stop.
C2_EndsWithOneMessageDeltaAndStop ==
    /\ \A k \in Positions(sa_out, "message_stop") : k = Len(sa_out)
    /\ Cardinality(Positions(sa_out, "message_delta")) <= 1
    /\ (sa_pc = "done" /\ sa_out # <<>>) =>
          /\ Len(sa_out) >= 2
          /\ sa_out[Len(sa_out) - 1].type = "message_delta"
          /\ sa_out[Len(sa_out)].type = "message_stop"

\* C3: whenever anything has been emitted, the emitted sequence contains
\* exactly one message_start and it is the first event, before every block
\* event, message_delta, message_stop and error event.
C3_MessageStartIsFirst ==
    sa_out # <<>> =>
        /\ sa_out[1].type = "message_start"
        /\ Positions(sa_out, "message_start") = {1}

\* C4: once the upstream stream has ended, every content_block_start on
\* index i is followed in the emitted sequence by exactly one
\* content_block_stop on index i.
C4_EveryStartedBlockIsStopped ==
    sa_pc = "done" =>
        \A k \in Positions(sa_out, "content_block_start") :
            Cardinality({m \in (k + 1)..Len(sa_out) :
                           IsStop(sa_out[m]) /\ sa_out[m].index = sa_out[k].index}) = 1

\* a content_block_start is emitted only when every block started before it
\* has received its content_block_stop
NoStartWhileOpen(s) ==
    \A k \in Positions(s, "content_block_start") :
        \A j \in 1..(k - 1) :
            IsStart(s[j]) => StopBetween(s, s[j].index, j + 1, k - 1)

\* C5: at every point of the emitted sequence at most one content block is
\* open (no content_block_start while an earlier block lacks its
\* content_block_stop), and the events of a payload are emitted after all
\* events of the payloads that arrived before it.
C5_AtMostOneOpenBlock ==
    /\ [](NoStartWhileOpen(sa_out))
    /\ [][IsPrefix(sa_out, sa_out')]_vars

\* witness of C5: a text block, then a tool_use block, then a text block again
C5_InterleavedBlocks ==
    \E i, j, k \in Positions(sa_out, "content_block_start") :
        /\ i < j /\ j < k
        /\ sa_out[i].block = "text"
        /\ sa_out[j].block = "tool_use"
        /\ sa_out[k].block = "text"

\* C8: an upstream [DONE] is never re-emitted and ends the stream: once it
\* has been consumed no later payload emits an event or changes the state.
C8_NothingAfterDone ==
    [][sa_done_seen => (sa_out' = sa_out /\ sa_state' = sa_state)]_vars

\* C9: a data payload that is not valid JSON yields exactly one error event,
\* leaves the AnthropicStreamState unchanged and leaves the adapter reading.
C9_InvalidJsonEmitsOneError ==
    [][(sa_n' = sa_n + 1 /\ sa_last_kind' = "invalid") =>
          /\ sa_out' = Append(sa_out, anthropic_error_event)
          /\ sa_state' = sa_state
          /\ sa_pc' = "reading"]_vars

\* witness of C9: an error event was emitted in the middle of an open block
\* and the payloads after it were translated into further deltas of that block
C9_TranslationContinuesAfterError ==
    \E k \in Positions(sa_out, "error") :
        /\ k > 1 /\ k < Len(sa_out)
        /\ IsDelta(sa_out[k - 1]) /\ IsDelta(sa_out[k + 1])
        /\ sa_out[k - 1].index = sa_out[k + 1].index

(***************************************************************************)
(* Claims about the Responses -> Anthropic stream adapter.                 *)
(***************************************************************************)
NonError(s) == SelectSeq(s, LAMBDA e : e.type # "error")

\* a payload of type response.output_text.delta
IsOutputTextDelta(p) ==
    p.kind = "json" /\ p.type = "response.output_text.delta"

\* a payload of type response.output_text.delta whose delta is a string
IsOutputTextDeltaWithText(p) == IsOutputTextDelta(p) /\ p.delta # NoValue

\* one text_delta on index 0 per selected payload, in arrival order
TextDeltasOf(in, Selected(_)) ==
    LET sel == SelectSeq(in, Selected)
    IN [k \in 1..Len(sel) |-> TextDelta(0, sel[k].delta)]

\* output_tokens of the last response.completed payload that carries one, else 0
RECURSIVE CapturedOutputTokens(_)
CapturedOutputTokens(in) ==
    IF in = <<>> THEN 0
    ELSE LET p == in[Len(in)] IN
         IF p.kind = "json" /\ p.type = "response.completed" /\ p.output_tokens.some
         THEN p.output_tokens.v
         ELSE CapturedOutputTokens(SubSeq(in, 1, Len(in) - 1))

OpeningEvents == <<MessageStart, ContentBlockStart(0, "text")>>

ExpectedResponsesEvents(in, Selected(_)) ==
    OpeningEvents \o TextDeltasOf(in, Selected)
    \o <<ContentBlockStop(0), ResponsesMessageDelta(CapturedOutputTokens(in)),
         MessageStop>>

\* C6 (as stated): for every upstream payload sequence the non-error events are
\* message_start, content_block_start(0, text), one text_delta on index 0 per
\* response.output_text.delta payload in arrival order, content_block_stop(0),
\* message_delta(end_turn, captured output_tokens), message_stop, and
\* message_stop is the last event.
C6_OneDeltaPerOutputTextDelta ==
    sr_pc = "done" =>
        /\ NonError(sr_out) = ExpectedResponsesEvents(sr_in, IsOutputTextDelta)
        /\ sr_out[Len(sr_out)] = MessageStop

\* C6 (amended): as above, with one text_delta per response.output_text.delta
\* payload whose delta is a string; while the upstream stream is still being
\* read the non-error events are the two opening events and those deltas.
C6_OneDeltaPerOutputTextDeltaString ==
    /\ sr_pc = "reading" =>
          NonError(sr_out) =
             OpeningEvents \o TextDeltasOf(sr_in, IsOutputTextDeltaWithText)
    /\ sr_pc = "done" =>
          /\ NonError(sr_out) =
                ExpectedResponsesEvents(sr_in, IsOutputTextDeltaWithText)
          /\ sr_out[Len(sr_out)] = MessageStop

\* witness of C6: a finished stream that delivered two different text deltas
\* and a response.completed carrying output_tokens
C6_TwoDeltasAndCompleted ==
    /\ sr_pc = "done"
    /\ \E i, j, k \in DOMAIN sr_in :
         /\ i < j
         /\ IsOutputTextDeltaWithText(sr_in[i])
         /\ IsOutputTextDeltaWithText(sr_in[j])
         /\ sr_in[i].delta # sr_in[j].delta
         /\ sr_in[k].kind = "json" /\ sr_in[k].type = "response.completed"
         /\ sr_in[k].output_tokens.some

(***************************************************************************)
(* Claims about the Responses -> chat-completions stream adapter.          *)
(***************************************************************************)
IsChunk(f) == f.frame = "chunk"
IsFinalChunk(f) == IsChunk(f) /\ f.finish_reason = "stop"
IsDeltaChunk(f) == IsChunk(f) /\ f.finish_reason = "null"

SawCompleted(in) == \E k \in DOMAIN in : IsCompleted(in[k])

\* usage of the last response.completed line that carries a usage object,
\* absent fields read as 0; <<0, 0>> when there is none
RECURSIVE CapturedUsage(_)
CapturedUsage(in) ==
    IF in = <<>> THEN <<0, 0>>
    ELSE LET p == in[Len(in)] IN
         IF IsCompleted(p) /\ p.usage.some
         THEN <<IF p.usage.v.input_tokens.some THEN p.usage.v.input_tokens.v ELSE 0,
                IF p.usage.v.output_tokens.some THEN p.usage.v.output_tokens.v ELSE 0>>
         ELSE CapturedUsage(SubSeq(in, 1, Len(in) - 1))

\* the stream ends with one final chunk (empty delta, finish_reason "stop",
\* usage of the response.completed line) followed by [DONE] as the last frame
EndsWithFinalChunkAndDone(out, in) ==
    /\ Len(out) >= 2
    /\ out[Len(out)] = DoneFrame
    /\ IsFinalChunk(out[Len(out) - 1])
    /\ out[Len(out) - 1].delta = "{}"
    /\ out[Len(out) - 1].usage.prompt_tokens = CapturedUsage(in)[1]
    /\ out[Len(out) - 1].usage.completion_tokens = CapturedUsage(in)[2]
    /\ Cardinality({k \in DOMAIN out : IsFinalChunk(out[k])}) = 1
    /\ Cardinality({k \in DOMAIN out : out[k] = DoneFrame}) = 1

\* all chunks carry the same id, and no delta chunk follows the final chunk
SameIdAndNoDeltaAfterFinal(out) ==
    /\ \A i, j \in DOMAIN out :
          (IsChunk(out[i]) /\ IsChunk(out[j])) => out[i].id = out[j].id
    /\ \A i, j \in DOMAIN out :
          (IsFinalChunk(out[i]) /\ i < j) => ~IsDeltaChunk(out[j])

Accepted(r) == rl_req[r].pc = "returned" /\ rl_req[r].result = "ok"
Rejected(r) == rl_req[r].pc = "returned" /\ rl_req[r].result = "err"

Abs(x) == IF x < 0 THEN -x ELSE x

\* any two accepted requests were accepted at least L seconds apart
AcceptedSpaced ==
    \A r1, r2 \in Requests :
        (r1 # r2 /\ Accepted(r1) /\ Accepted(r2)) =>
            Abs(rl_req[r1].at - rl_req[r2].at) >=
                rl_config.rate_limit_seconds.v * TicksPerSecond

\* C10 (as stated): with rate_limit_seconds = L, wait-mode on or off, any two
\* accepted requests have acceptance times at least L seconds apart.
C10_AcceptedSpaced ==
    rl_config.rate_limit_seconds.some => AcceptedSpaced

\* C10 (amended): with rate_limit_seconds = L and wait-mode off, any two
\* accepted requests have acceptance times at least L seconds apart.
C10_AcceptedSpacedWithoutWait ==
    (rl_config.rate_limit_seconds.some /\ ~rl_config.rate_limit_wait) =>
        AcceptedSpaced

\* witness of C10: wait-mode off, two requests accepted and one rejected
C10_TwoAcceptedOneRejected ==
    /\ rl_config.rate_limit_seconds.some
    /\ ~rl_config.rate_limit_wait
    /\ \E r1, r2, r3 \in Requests :
         r1 # r2 /\ Accepted(r1) /\ Accepted(r2) /\ Rejected(r3)

\* request r makes its call to check_rate_limit in this step
Calls(r) == rl_req[r].pc = "idle" /\ rl_req'[r].pc # "idle"

\* the call is made with limit L set and the last timestamp less than L
\* seconds ago
CalledWithinWindow ==
    /\ rl_config.rate_limit_seconds.some
    /\ rl_config.last_request_timestamp.some
    /\ rl_now - rl_config.last_request_timestamp.v <
          rl_config.rate_limit_seconds.v * TicksPerSecond

\* the ticks left of the window at the time of the call
RemainingTicks ==
    rl_config.rate_limit_seconds.v * TicksPerSecond -
        (rl_now - rl_config.last_request_timestamp.v)

\* the least number of whole seconds that covers a number of ticks
CeilSeconds(ticks) ==
    CHOOSE s \in 0..ticks :
        s * TicksPerSecond >= ticks /\ (s - 1) * TicksPerSecond < ticks

\* C11: with rate limit L set, wait-mode off and the last accepted request
\* less than L seconds ago, check_rate_limit returns the bad-request error
\* naming ceil(L - elapsed) seconds at the time of the call, without sleeping,
\* and leaves last_request_timestamp unchanged.
C11_RejectedWithoutSleeping ==
    [][\A r \in Requests :
          (Calls(r) /\ CalledWithinWindow /\ ~rl_config.rate_limit_wait) =>
              /\ rl_req'[r].pc = "returned"
              /\ rl_req'[r].result = "err"
              /\ rl_req'[r].wait_secs = CeilSeconds(RemainingTicks)
              /\ rl_req'[r].at = rl_now
              /\ rl_now' = rl_now
              /\ rl_config' = rl_config]_vars

\* witness of C11: a request rejected a fraction of a second before the window
\* of an earlier accepted request ends, told to wait one second
C11_RejectedInLastSecond ==
    /\ ~rl_config.rate_limit_wait
    /\ rl_config.rate_limit_seconds = Some(2)
    /\ \E r \in Requests :
         /\ Rejected(r)
         /\ rl_req[r].wait_secs = 1
         /\ rl_config.last_request_timestamp.some
         /\ rl_config.last_request_timestamp.v < rl_req[r].at
         /\ (rl_req[r].at - rl_config.last_request_timestamp.v) % TicksPerSecond # 0

\* C12: whenever check_rate_limit decides that a request proceeds (limit
\* unset, window elapsed, or wait-mode), last_request_timestamp is set to the
\* decision time in the critical section that made the comparison; in
\* wait-mode the timestamp is already updated when the request starts sleeping.
C12_TimestampSetWhenProceeding ==
    [][\A r \in Requests :
          (Calls(r) /\ rl_req'[r].result # "err") =>
              rl_config'.last_request_timestamp = Some(rl_now)]_vars

\* C13: with rate limit L set, wait-mode on and the last accepted request less
\* than L seconds ago, check_rate_limit starts a sleep that ends no earlier
\* than the window, returns only after the sleep has elapsed, returns Ok and
\* never an error, and always eventually returns (a sleeping request sleeps
\* until it returns, so every sleeper returns exactly if again and again no
\* request is asleep).
C13_WaitSleepsThenProceeds ==
    /\ [][\A r \in Requests :
             (Calls(r) /\ CalledWithinWindow /\ rl_config.rate_limit_wait) =>
                 /\ rl_req'[r].pc = "sleeping"
                 /\ rl_req'[r].wake - rl_now >= RemainingTicks]_vars
    /\ [][\A r \in Requests :
             (rl_req[r].pc = "sleeping" /\ rl_req'[r].pc # "sleeping") =>
                 /\ rl_req'[r].pc = "returned"
                 /\ rl_req'[r].result = "ok"
                 /\ rl_now >= rl_req[r].wake]_vars
    /\ []<>(\A r \in Requests : rl_req[r].pc # "sleeping")

\* witness of C13: a request that slept a fraction of the window and returned Ok
C13_SleptAndProceeded ==
    /\ rl_config.rate_limit_wait
    /\ \E r \in Requests :
         /\ Accepted(r)
         /\ rl_req[r].wait_secs > 0
         /\ rl_req[r].at >= rl_req[r].wake

(***************************************************************************)
(* Claims about the gates of the request handlers.                         *)
(***************************************************************************)
Responded(r) == hd_req[r].pc = "responded"

InLog(r, entry) == \E k \in DOMAIN hd_req[r].log : hd_req[r].log[k] = entry

\* the handler of r called a before it called b
Precedes(r, a, b) ==
    \E i, j \in DOMAIN hd_req[r].log :
        i < j /\ hd_req[r].log[i] = a /\ hd_req[r].log[j] = b

\* the response {"error":{"message": message}} with the given status
ErrorAnswer(status, message) ==
    [status |-> status, body |-> [kind |-> "error", message |-> message]]

\* a PreToolUse hook that was run for r returned a non-zero exit code
HookReturnedNonZero(r) == "nonzero" \in hd_req[r].pre_failures

\* nothing was called for r after the PreToolUse hooks
StoppedAtPreToolUse(r) ==
    /\ Responded(r)
    /\ hd_req[r].log = <<"PreToolUse">>
    /\ rl_req[r].pc = "idle"

\* C14 (as stated): when a PreToolUse hook matching a /chat/completions or
\* /v1/messages request returns a non-zero exit code, the request is answered
\* with HTTP 400 and body {"error":{"message":"Hook blocked request"}}, and no
\* upstream call is made for it.
C14_NonZeroHookAnswers400 ==
    \A r \in Handlers :
        HookReturnedNonZero(r) =>
            /\ StoppedAtPreToolUse(r)
            /\ hd_req[r].response = ErrorAnswer(400, "Hook blocked request")

\* C14 (amended): such a request is answered with an error and nothing is
\* called for it after the hooks; the answer is HTTP 400 "Hook blocked
\* request" when no matching hook failed to spawn or timed out, and HTTP 500
\* with the message of that failure otherwise.
C14_NonZeroHookBlocks ==
    \A r \in Handlers :
        HookReturnedNonZero(r) =>
            /\ StoppedAtPreToolUse(r)
            /\ hd_req[r].endpoint \in {"chat_completions", "messages"}
            /\ hd_req[r].pre_failures = {"nonzero"} =>
                  hd_req[r].response = ErrorAnswer(400, "Hook blocked request")
            /\ "spawn_failed" \in hd_req[r].pre_failures =>
                  hd_req[r].response = ErrorAnswer(500, "Failed to spawn hook command")
            /\ "timeout" \in hd_req[r].pre_failures =>
                  hd_req[r].response = ErrorAnswer(500, "Hook command timeout")

\* witness of C14: a /v1/messages request blocked by a hook with HTTP 400
\* while the other request went through to its upstream call
C14_OneBlockedOneServed ==
    \E r, q \in Handlers :
        /\ hd_req[r].endpoint = "messages"
        /\ hd_req[r].pre_failures = {"nonzero"}
        /\ hd_req[r].response.status = 400
        /\ hd_req[q].endpoint = "chat_completions"
        /\ InLog(q, "PreToolUse") /\ InLog(q, "upstream")

\* C15: every request for which an upstream call is made has passed the
\* approval gate, the rate limiter and (where hooks are configured) the
\* PreToolUse hooks before that call, on each of the four endpoints.
C15_GatesBeforeUpstream ==
    \A r \in Handlers :
        InLog(r, "upstream") =>
            /\ Precedes(r, "approval", "upstream")
            /\ Precedes(r, "rate_limit", "upstream")
            /\ hd_hooks => Precedes(r, "PreToolUse", "upstream")

\* the place of a call in the order approval gate, rate limiter, PreToolUse
\* hooks, provider selection (token), upstream call, PostToolUse hooks
GateRank(entry) ==
    CASE entry = "approval" -> 1
      [] entry = "rate_limit" -> 2
      [] entry = "PreToolUse" -> 3
      [] entry = "token" -> 4
      [] entry = "upstream" -> 5
      [] entry = "PostToolUse" -> 6

\* C16: a request passes the approval gate first, then the rate limiter, then
\* the PreToolUse hooks, and only then provider selection and the upstream
\* call; a request stopped by a gate has reached no later gate.
C16_GateOrder ==
    \A r \in Handlers :
        \A i, j \in DOMAIN hd_req[r].log :
            i < j => GateRank(hd_req[r].log[i]) < GateRank(hd_req[r].log[j])

\* the handler of r leaves the given place in this step
Leaves(r, pc) == hd_req[r].pc = pc /\ hd_req'[r].pc # pc

\* C17: check_manual_approval returns Ok without prompting when manual_approve
\* is off; when it is on, an answer that is not affirmative, or a prompt that
\* fails, is answered with 401 "Request rejected", and the rejected request
\* neither calls check_rate_limit (so it leaves last_request_timestamp alone)
\* nor causes an upstream call.
C17_ApprovalGate ==
    /\ [][\A r \in Handlers :
             (Leaves(r, "approval") /\ ~hd_manual_approve) =>
                 /\ hd_req'[r].pc = "rate_limit"
                 /\ hd_req'[r].answer = "none"]_vars
    /\ [][\A r \in Handlers :
             Leaves(r, "prompting") =>
                 /\ rl_config' = rl_config
                 /\ hd_req'[r].answer = "yes" => hd_req'[r].pc = "rate_limit"
                 /\ hd_req'[r].answer # "yes" =>
                       hd_req'[r].response = ErrorAnswer(401, "Request rejected")]_vars
    /\ [](\A r \in Handlers :
             hd_req[r].answer \in {"no", "failed"} =>
                 /\ Responded(r)
                 /\ hd_req[r].response = ErrorAnswer(401, "Request rejected")
                 /\ ~InLog(r, "rate_limit") /\ ~InLog(r, "upstream")
                 /\ rl_req[r].pc = "idle")

\* witness of C17: one request rejected because its prompt failed, the other
\* approved by the operator, accepted by the rate limiter and sent upstream
C17_OneRejectedOneApproved ==
    \E r, q \in Handlers :
        /\ hd_req[r].answer = "failed" /\ Responded(r)
        /\ hd_req[q].answer = "yes" /\ InLog(q, "upstream")
        /\ rl_config.rate_limit_seconds.some
        /\ rl_config.last_request_timestamp = Some(rl_req[q].at)

\* C18: when manual approval is on and several requests arrive concurrently,
\* at most one operator prompt is active at any time.
C18_OnePromptAtATime ==
    Cardinality({r \in Handlers : hd_req[r].pc = "prompting"}) <= 1

\* C19: for every request answered with a successful response, streamed or
\* buffered, on every provider path, the PostToolUse hooks were executed.
C19_PostHooksRunOnSuccess ==
    \A r \in Handlers :
        (hd_hooks /\ Responded(r) /\ hd_req[r].response.status = 200) =>
            InLog(r, "PostToolUse")

\* C20: a PostToolUse hook that exits non-zero, times out or fails to spawn
\* does not change the status or the body returned to the client: the answer
\* is the successful response the handler held before it ran the hooks.
C20_PostHookFailureKeepsResponse ==
    /\ [][\A r \in Handlers :
             Leaves(r, "post_hooks") =>
                 /\ Responded(r)'
                 /\ hd_req'[r].response = hd_req[r].pending
                 /\ hd_req'[r].response.status = 200
                 /\ hd_req'[r].response.body.kind \in {"sse", "json"}]_vars
    /\ [](\A r \in Handlers :
             hd_req[r].post_failures # {} =>
                 /\ Responded(r)
                 /\ hd_req[r].response.status = 200)

\* witness of C20: a streamed and a buffered response, one returned after a
\* hook exited non-zero and a later one timed out, the other after a hook
\* failed to spawn
C20_AnsweredDespiteFailedHooks ==
    \E r, q \in Handlers :
        /\ hd_req[r].post_failures = {"nonzero", "timeout"}
        /\ hd_req[r].response = SuccessResponse("sse")
        /\ hd_req[q].post_failures = {"spawn_failed"}
        /\ hd_req[q].response = SuccessResponse("json")


\* the entries of the log whose command ran past its timeout
TimedOut(k) == hk_log[k].outcome # "skipped" /\ hk_log[k].overran

\* C21: a command hook that runs past its per-entry timeout makes the
\* PreToolUse call fail with the internal error "Hook command timeout"
\* (status 500), and the answer is never "Hook blocked request"
C21_TimeoutIsInternalError ==
    (hk_pc = "returned" /\ \E k \in DOMAIN hk_log : TimedOut(k)) =>
        /\ ~hk_result.ok
        /\ hk_result.err = ApiError("Internal", "Hook command timeout")
        /\ hk_response = ErrorAnswer(500, "Hook command timeout")
        /\ hk_response.body.message # "Hook blocked request"

\* a hook exits non-zero, the next one runs past its timeout, and the call
\* has returned
C21_TimedOutAfterNonZero ==
    /\ hk_pc = "returned"
    /\ \E k \in DOMAIN hk_log :
          /\ TimedOut(k)
          /\ \E j \in 1..(k - 1) : hk_log[j].outcome = "nonzero"


\* C22: the drain task, once it has opened the observations file, keeps
\* running for the life of the process, also when more events are pending
\* than the broadcast channel holds
C22_DrainKeepsRunning == ob_opened => ob_task # "exited"


\* the task's sleep is over and its request is sent at this instant
RefreshDue == rf_pc = "sleeping" /\ rf_sleep_left = 0

\* C23: once a Copilot token is cached, in every state either the token's
\* expires_at lies ahead or a refresh request is in flight (or is being sent
\* at this instant)
C23_TokenValidOrRefreshing ==
    rf_token.some => (rf_ttl_left > 0 \/ rf_pc = "in_flight" \/ RefreshDue)

\* C24: the attempt that follows a failed refresh attempt starts 300 seconds
\* after the failure
C24_RetryAfter300Seconds == rf_gap.some => rf_gap.v = 300


\* the refresh task has been spawned
RefreshTask == rf_pc \in {"sleeping", "in_flight"}

\* C25: the refresh task never exits: every request it sends is answered and
\* followed by a sleep and a further request; a failed attempt leaves the
\* cached token as it was; a successful one replaces the cached token by the
\* token of the response and sleeps for the response's refresh_in less the
\* margin
C25_RefreshTaskRecovers ==
    /\ [][RefreshTask => RefreshTask']_vars
    /\ [][(rf_pc = "in_flight" /\ rf_pc' # "in_flight") =>
            IF rf_issued' = rf_issued
            THEN rf_token' = rf_token
            ELSE /\ rf_token' = Some(rf_issued')
                 /\ \E response \in CopilotResponses :
                       /\ rf_next_refresh' = response.refresh_in
                       /\ rf_sleep_left' = RefreshWait(response.refresh_in)]_vars
    /\ (rf_pc = "sleeping") ~> (rf_pc = "in_flight")
    /\ (rf_pc = "in_flight") ~> (rf_pc = "sleeping")

\* the task's first request failed, a later one succeeded, and the task sleeps
\* with the second token cached
C25_RecoveredAfterFailure ==
    /\ rf_pc = "sleeping"
    /\ rf_gap.some
    /\ rf_since_fail = None
    /\ rf_issued = 2
    /\ rf_token = Some(2)


\* C26: poll_access_token returns only with an access token: no answer to a
\* poll makes the /auth/poll handler return an Upstream error
C26_PollNeverReturnsError ==
    au_pc = "returned" => au_result.err.kind # "Upstream"

\* the token file as ensure_paths leaves it holds no token
HoldsNoToken(file) == ~file.exists \/ (file.readable /\ Trim(file.content) = <<>>)

\* the token file, or its directory, cannot be created or read
FileFails(dir_ok, file) ==
    \/ ~dir_ok
    \/ ~file.exists /\ ~file.writable
    \/ file.exists /\ ~file.readable

ChatCompletionsEndpoints == {"azure_chat", "openai_chat", "copilot_chat"}

\* C28: a request that names a Responses-only model (an id that
\* resolve_model_alias leaves as it is and that is in the Responses-only set)
\* is never sent to an upstream chat-completions endpoint, on any provider
\* path of either endpoint
C28_ResponsesOnlyNeverChat ==
    (/\ rt_pc = "routed"
     /\ resolve_model_alias(rt_model) = rt_model
     /\ messages_requires_responses_api(rt_model)) =>
        rt_sent.to \notin ChatCompletionsEndpoints

\* Azure is configured in full: endpoint, key and default deployment
AzureConfigured ==
    rt_env.azure_endpoint_key /\ rt_env.azure_deployment.some

\* C29: with Azure configured, POST /chat/completions goes to the provider
\* of the model's `azure:` or `openai:` prefix whatever COPILOT_PROVIDER is;
\* without a prefix to the provider COPILOT_PROVIDER names; else to Copilot
C29_PrefixWinsOverProvider ==
    (rt_pc = "routed" /\ rt_endpoint = "chat" /\ AzureConfigured) =>
        IF StartsWith(rt_model, AzurePrefix) THEN rt_sent.to = "azure_chat"
        ELSE IF StartsWith(rt_model, OpenaiPrefix)
        THEN rt_sent.to \in {"openai_chat", "rejected"}
        ELSE IF Provider(rt_env) = "azure" THEN rt_sent.to = "azure_chat"
        ELSE IF Provider(rt_env) = "openai"
        THEN rt_sent.to \in {"openai_chat", "rejected"}
        ELSE rt_sent.to \in {"copilot_chat", "copilot_responses"}

\* C30: both resolve_model_alias functions are idempotent: applied to their
\* own result they return it unchanged
C30_ResolveIdempotent ==
    /\ \A k \in 3..Len(rt_chat_chain) : rt_chat_chain[k] = rt_chat_chain[2]
    /\ \A k \in 3..Len(rt_msg_chain) : rt_msg_chain[k] = rt_msg_chain[2]

\* a versioned id, which a prefix rule resolves, has been resolved twice by
\* both functions
C30_VersionedResolvedTwice ==
    /\ rt_model = <<"claude", "-", "sonnet", "-", "4", "-", "20250514">>
    /\ rt_chat_chain = <<rt_model, Gpt51Codex, Gpt51Codex>>
    /\ rt_msg_chain = <<rt_model, Gpt51Codex, Gpt51Codex>>


\* the outcomes of the entries of the log that were not skipped, in order
Outcomes(log) ==
    SelectSeq([k \in DOMAIN log |-> log[k].outcome], LAMBDA o : o # "skipped")

\* the entry's hook ended in an error: timeout, spawn failure, I/O error
Failed(entry) == entry.outcome \in {"timeout", "spawn_failed", "io_error"}

\* C31: the `hook` command echoes the input and exits non-zero whenever a
\* hook that ran returned a non-zero exit code, whatever the other hooks do
C31_NonZeroHookExitsNonZero ==
    hk_pc = "exited" =>
        /\ hk_cli.echoed
        /\ (\E k \in DOMAIN hk_log : hk_log[k].outcome = "nonzero") => hk_cli.status # 0

\* C39: an entry is skipped exactly if its config's matcher is not true or it
\* is disabled; no entry is visited after a hook error; when execute_event
\* returns, it returns an Err if a hook ended in an error, else the results of
\* all hooks that were not skipped, in manifest order, hooks after a non-zero
\* exit code included
C39_ExecuteEventOrder ==
    /\ \A k \in DOMAIN hk_log :
          /\ hk_log[k].outcome = "skipped" <=>
                (hk_log[k].matched # "true" \/ ~hk_log[k].enabled)
          /\ Failed(hk_log[k]) => k = Len(hk_log)
    /\ hk_pc \in {"returned", "exited"} =>
          IF \E k \in DOMAIN hk_log : Failed(hk_log[k])
          THEN ~hk_result.ok
          ELSE hk_result.ok /\ hk_result.ran = Outcomes(hk_log)

\* a hook exits non-zero, a disabled entry is skipped, a later hook runs, and
\* all results are returned
C39_RanAfterNonZero ==
    /\ hk_pc = "returned"
    /\ hk_result.ok
    /\ hk_result.ran = <<"nonzero", "exit0">>
    /\ Len(hk_log) = 3
    /\ hk_log[1].outcome = "nonzero"
    /\ hk_log[2].outcome = "skipped" /\ ~hk_log[2].enabled


\* C40: both routes resolve every model id to the same upstream model id and
\* make the same Responses-API-versus-chat-completions decision for it
C40_ResolversEquivalent ==
    (Len(rt_chat_chain) >= 2 /\ Len(rt_msg_chain) >= 2) =>
        /\ rt_chat_chain[2] = rt_msg_chain[2]
        /\ requires_responses_api(rt_chat_chain[2])
              = messages_requires_responses_api(rt_msg_chain[2])


\* the indices of the content_block_start events of s, in emission order
StartIndices(s) ==
    LET starts == SelectSeq(s, IsStart) IN [k \in DOMAIN starts |-> starts[k].index]

\* C35: the content_block_start indices are strictly increasing in emission
\* order and start at 0 (so no index is started twice), and the
\* content_block_stop of a started block precedes every later
\* content_block_start
C35_StartIndicesIncrease ==
    LET idx == StartIndices(sa_out) IN
    /\ idx # <<>> => idx[1] = 0
    /\ \A k \in 1..(Len(idx) - 1) : idx[k] < idx[k + 1]
    /\ NoStartWhileOpen(sa_out)


(***************************************************************************)
(* Claims about single calls of translate_chunk_to_anthropic_events.       *)
(***************************************************************************)
\* the last chunk carried exactly one tool-call delta, for an upstream index
\* that no delta with id and name had opened, and itself without id or name
UnopenedToolDelta ==
    /\ td_n > 0
    /\ Len(td_chunk.tool_calls) = 1
    /\ td_chunk.tool_calls[1].index \notin DOMAIN td_before.tool_calls
    /\ ~(td_chunk.tool_calls[1].id /\ td_chunk.tool_calls[1].name)

\* the number of input_json_delta events among the events ev
ArgumentDeltas(ev) ==
    Len(SelectSeq(ev, LAMBDA e : IsDelta(e) /\ e.delta = "input_json_delta"))

\* the number of tool-call deltas of the chunk that carry arguments
ArgumentFragments(chunk) ==
    Cardinality({k \in DOMAIN chunk.tool_calls : chunk.tool_calls[k].arguments})

\* C36: a tool-call delta for an upstream index that no delta with id and
\* name has opened, itself without id or name, emits no event and changes no
\* part of the stream state: the call does what it does for the same chunk
\* without the delta, and the tool-call map, block index and open flag are
\* as the chunk's other parts leave them; no call emits more argument deltas
\* than its own chunk carries argument fragments, so a dropped fragment is
\* not emitted later
C36_UnopenedToolDeltaDropped ==
    /\ UnopenedToolDelta =>
          LET without == translate_chunk_to_anthropic_events(
                             [td_chunk EXCEPT !.tool_calls = <<>>], td_before) IN
          /\ td_ev = without.ev
          /\ td_st = without.st
          /\ td_st.tool_calls = td_before.tool_calls
          /\ ArgumentDeltas(td_ev) = 0
          /\ (~td_chunk.content /\ td_chunk.finish_reason = "null") =>
                /\ \A k \in DOMAIN td_ev : td_ev[k].type = "message_start"
                /\ td_st.content_block_index = td_before.content_block_index
                /\ td_st.content_block_open = td_before.content_block_open
    /\ ArgumentDeltas(td_ev) <= ArgumentFragments(td_chunk)

\* upstream index 0 is open, and a chunk that carries only arguments for
\* upstream index 1 has been translated
C36_ArgumentsForUnopenedIndex ==
    /\ UnopenedToolDelta
    /\ td_chunk.tool_calls[1].arguments
    /\ td_chunk.tool_calls[1].index = 1
    /\ 0 \in DOMAIN td_before.tool_calls
    /\ td_before.content_block_open
    /\ ~td_chunk.content
    /\ td_chunk.finish_reason = "null"


(***************************************************************************)
(* Claims about messages_to_responses_input.                               *)
(***************************************************************************)
\* the value of a key of a serialised item, None when the item has no such key
Field(item, key) == IF key \in DOMAIN item THEN item[key] ELSE None

RECURSIVE Concat(_)
Concat(seqs) == IF seqs = <<>> THEN <<>> ELSE Head(seqs) \o Concat(Tail(seqs))

\* the items are a `message` item with the role and the text
IsMessageItem(item, role, text) ==
    /\ item.type = "message"
    /\ Field(item, "role") = Some(role)
    /\ Field(item, "content") = Some(text)

\* the item is the function_call item of the tool call
IsFunctionCallItem(item, tc) ==
    /\ item.type = "function_call"
    /\ Field(item, "call_id") = Some(tc.id)
    /\ Field(item, "name") = Some(tc.name)
    /\ Field(item, "arguments") = Some(tc.arguments)

\* C32: system messages push nothing and the items of the other messages
\* stand in the order of the messages; a user or assistant message with a
\* string content pushes a `message` item with its role and text; an
\* assistant message pushes, after its text item, one function_call item for
\* each tool call, with call_id, name and arguments; a tool message pushes one
\* function_call_output item with call_id and output
C32_MessagesToResponsesInput ==
    /\ mr_input = Concat(mr_produced)
    /\ \A k \in DOMAIN mr_messages :
          LET msg == mr_messages[k]
              items == mr_produced[k]
              texts == IF msg.content.kind = "string" THEN 1 ELSE 0
              calls == IF msg.tool_calls.some THEN Len(msg.tool_calls.v) ELSE 0 IN
          /\ msg.role = "system" => items = <<>>
          /\ (msg.role = "user" /\ msg.content.kind = "string") =>
                (Len(items) = 1 /\ IsMessageItem(items[1], "user", msg.content.s))
          /\ msg.role = "assistant" =>
                /\ Len(items) = texts + calls
                /\ texts = 1 => IsMessageItem(items[1], "assistant", msg.content.s)
                /\ \A j \in 1..calls :
                      IsFunctionCallItem(items[texts + j], msg.tool_calls.v[j])
          /\ msg.role = "tool" =>
                /\ Len(items) = 1
                /\ items[1].type = "function_call_output"
                /\ Field(items[1], "call_id") = msg.tool_call_id
                /\ Field(items[1], "output").some


\* C38: when a request of the refresh task has been answered, the task
\* sleeps for a positive duration before it sends its next request
C38_SleepBetweenRequests ==
    [][(rf_pc = "in_flight" /\ rf_pc' = "sleeping") => rf_sleep_left' > 0]_vars


(***************************************************************************)
(* Claims about concurrent calls of ensure_copilot_token.                  *)
(***************************************************************************)
\* C37: at most one refresh task exists, and a call that found a cached
\* Copilot token made no upstream call and spawned no task
C37_AtMostOneRefreshTask ==
    /\ ec_tasks <= 1
    /\ \A c \in Callers :
          ec_call[c].cached => (~ec_call[c].upstream /\ ~ec_call[c].spawned)


(***************************************************************************)
(* Claims about the Copilot branch of POST /chat/completions.              *)
(***************************************************************************)
\* C33: a request without max_tokens whose alias-resolved model has an entry
\* with max_output_tokens in the cached catalog is sent upstream with that
\* limit
C33_MaxTokensFilledFromCatalog ==
    LET resolved == resolve_model_alias(mt_model) IN
    (/\ mt_pc = "sent"
     /\ mt_max_tokens = None
     /\ mt_models.some
     /\ resolved \in DOMAIN mt_models.v
     /\ mt_models.v[resolved].some) =>
        /\ mt_sent.model = resolved
        /\ mt_sent.max_tokens = mt_models.v[resolved]


(***************************************************************************)
(* Claims about the lock of AppState.config.                               *)
(***************************************************************************)
\* the tasks that hold a guard
Holders == lk_readers \cup (IF lk_writer = 0 THEN {} ELSE {lk_writer})

\* the task waits for a guard it cannot take now
Blocked(t) == NextOp(t) \in {"read", "write"} /\ ~CanStep(t)

\* C34: no task is suspended in I/O while it holds the write guard; a task
\* that waits for the lock never waits for a task that is suspended in I/O;
\* and as long as a task has not returned, some task can take a step
C34_NoWriteGuardAcrossIo ==
    /\ \A t \in LockTasks : lk_in_io[t] => lk_writer # t
    /\ \A t \in LockTasks : Blocked(t) => \A h \in Holders : ~lk_in_io[h]
    /\ (\E t \in LockTasks : NextOp(t) # "end") => \E t \in LockTasks : CanStep(t)

\* a request sleeps in check_rate_limit while another task holds the write
\* guard
C34_WriterWhileAnotherSleeps ==
    \E t, u \in LockTasks :
        /\ lk_path[t] = Write \o Io \o Write
        /\ lk_in_io[t]
        /\ lk_writer = u
        /\ u # t

=============================================================================
